---- MODULE Spec2Model ----
(***************************************************************************)
(* A model of sie_parser.parse_sie: the single forward scan over the lines *)
(* of a SIE file, followed by the #KTYP pass and the #SRU pass.            *)
(*                                                                         *)
(* Text is modelled as TLA+ strings and handled character by character:    *)
(* str.strip, str.split, str.startswith, str.find, str.replace, int() and  *)
(* float() are operators that compute what the Python built-ins compute on *)
(* the characters the inputs below are made of (printable ASCII, space and *)
(* tab).  float() is modelled on plain decimal literals; exponent, inf,    *)
(* nan and underscore forms do not occur in the inputs.                    *)
(***************************************************************************)
EXTENDS Integers, Sequences, FiniteSets, TLC

VARIABLES
    lines,              \* content.splitlines()
    line_num,           \* number of lines the scan loop has consumed
    pc,                 \* "scan", "sru", "done" (returned) or "error" (raised)
    sie_file,           \* the SieFile under construction
    current_voucher,    \* <<>> for None, else <<header>>
    in_voucher_block,
    ktyp_records,       \* insertion-ordered dict: sequence of <<key, value>>
    sru_records,        \* insertion-ordered dict: sequence of <<key, value>>
    err,                \* <<>> or <<the exception parse_sie raised>>
    result,             \* <<>> or <<the returned SieFile>>
    calls,              \* the invocations of parse_sie that have ended so far
    cli                 \* sie_cli.main: arguments, the file, output, exit status

vars == <<lines, line_num, pc, sie_file, current_voucher, in_voucher_block,
          ktyp_records, sru_records, err, result, calls, cli>>

-----------------------------------------------------------------------------
(* Bounds of the model.                                                    *)

MaxLines == 3
MaxVoucherLines == 4
MaxIdLen == 3
MaxShortLines == 2
MaxCallLines == 2
MaxCalls == 2
MaxNestingLines == 6

-----------------------------------------------------------------------------
(* Python string built-ins.                                                *)

None == 0   \* line_number=None of SieParseError; real line numbers start at 1

Ch(s, i) == SubSeq(s, i, i)

Digits == {"0", "1", "2", "3", "4", "5", "6", "7", "8", "9"}

IsSpace(c) == c \in {" ", "\t"}

RECURSIVE LStrip(_)
LStrip(s) ==
    IF Len(s) > 0 /\ IsSpace(Ch(s, 1)) THEN LStrip(SubSeq(s, 2, Len(s))) ELSE s

RECURSIVE RStrip(_)
RStrip(s) ==
    IF Len(s) > 0 /\ IsSpace(Ch(s, Len(s))) THEN RStrip(SubSeq(s, 1, Len(s) - 1)) ELSE s

Strip(s) == RStrip(LStrip(s))

StartsWith(s, p) == Len(s) >= Len(p) /\ SubSeq(s, 1, Len(p)) = p

EndsWith(s, p) == Len(s) >= Len(p) /\ SubSeq(s, Len(s) - Len(p) + 1, Len(s)) = p

\* str.find for a one-character needle: 0-based index, -1 when absent
RECURSIVE FindFrom(_, _, _)
FindFrom(s, c, i) ==
    IF i > Len(s) THEN -1
    ELSE IF Ch(s, i) = c THEN i - 1
    ELSE FindFrom(s, c, i + 1)

Find(s, c) == FindFrom(s, c, 1)

Contains(s, c) == Find(s, c) # -1

\* s[i:] with a 0-based index i >= 0
From(s, i) == SubSeq(s, i + 1, Len(s))

\* str.split(' ', maxsplit): every single space separates, empty fields are
\* kept; maxsplit = -1 is unlimited
RECURSIVE SplitSpace(_, _)
SplitSpace(s, maxsplit) ==
    LET i == Find(s, " ") IN
    IF maxsplit = 0 \/ i = -1 THEN <<s>>
    ELSE <<SubSeq(s, 1, i)>> \o SplitSpace(From(s, i + 1), maxsplit - 1)

\* length of the leading run of non-whitespace characters
RECURSIVE WordLen(_, _)
WordLen(s, i) ==
    IF i > Len(s) \/ IsSpace(Ch(s, i)) THEN i - 1 ELSE WordLen(s, i + 1)

\* str.split(): runs of whitespace separate, no empty fields
RECURSIVE Split(_)
Split(s) ==
    LET t == LStrip(s) IN
    IF Len(t) = 0 THEN <<>>
    ELSE LET n == WordLen(t, 1) IN <<SubSeq(t, 1, n)>> \o Split(From(t, n))

\* str.replace(',', '.')
RECURSIVE ReplaceComma(_)
ReplaceComma(s) ==
    IF Len(s) = 0 THEN s
    ELSE (IF Ch(s, 1) = "," THEN "." ELSE Ch(s, 1)) \o ReplaceComma(From(s, 1))

\* str.lstrip('-')
RECURSIVE LStripMinus(_)
LStripMinus(s) ==
    IF Len(s) > 0 /\ Ch(s, 1) = "-" THEN LStripMinus(From(s, 1)) ELSE s

\* str.isdigit(): non-empty and every character a digit
IsDigit(s) == Len(s) > 0 /\ \A i \in 1..Len(s) : Ch(s, i) \in Digits

DigitVal(c) ==
    CASE c = "0" -> 0 [] c = "1" -> 1 [] c = "2" -> 2 [] c = "3" -> 3
      [] c = "4" -> 4 [] c = "5" -> 5 [] c = "6" -> 6 [] c = "7" -> 7
      [] c = "8" -> 8 [] c = "9" -> 9

RECURSIVE NatVal(_)
NatVal(s) ==
    IF Len(s) = 0 THEN 0
    ELSE 10 * NatVal(SubSeq(s, 1, Len(s) - 1)) + DigitVal(Ch(s, Len(s)))

HasSign(s) == Len(s) > 0 /\ Ch(s, 1) \in {"+", "-"}

Unsigned(s) == IF HasSign(s) THEN From(s, 1) ELSE s

\* int(s) succeeds: an optional sign and at least one digit
IntOk(s) == IsDigit(Unsigned(s))

IntVal(s) == IF StartsWith(s, "-") THEN 0 - NatVal(Unsigned(s)) ELSE NatVal(Unsigned(s))

\* float(s) succeeds on a decimal literal: optional sign, digits with at most
\* one point, at least one digit
FloatOk(s) ==
    LET u == Unsigned(s)
        p == Find(u, ".")
        whole == IF p = -1 THEN u ELSE SubSeq(u, 1, p)
        frac == IF p = -1 THEN "" ELSE From(u, p + 1)
    IN /\ Len(whole) + Len(frac) > 0
       /\ \A i \in 1..Len(whole) : Ch(whole, i) \in Digits
       /\ \A i \in 1..Len(frac) : Ch(frac, i) \in Digits

\* a float as mantissa m and number e of decimals (m / 10^e), without trailing
\* zero decimals, so that equal numbers are equal values
RECURSIVE Normal(_, _)
Normal(m, e) ==
    IF e > 0 /\ m % 10 = 0 THEN Normal(m \div 10, e - 1) ELSE [m |-> m, e |-> e]

FloatVal(s) ==
    LET u == Unsigned(s)
        p == Find(u, ".")
        whole == IF p = -1 THEN u ELSE SubSeq(u, 1, p)
        frac == IF p = -1 THEN "" ELSE From(u, p + 1)
        n == NatVal(whole \o frac)
    IN Normal(IF StartsWith(s, "-") THEN 0 - n ELSE n, Len(frac))

Zero == [m |-> 0, e |-> 0]   \* 0.0

-----------------------------------------------------------------------------
(* Data model.                                                             *)

\* AccountType: member names; the SIE code is the member's value
AccountType == {"ASSET", "LIABILITY", "INCOME", "EXPENSE"}

AccountTypeValue(t) ==
    CASE t = "ASSET" -> "K" [] t = "LIABILITY" -> "S"
      [] t = "INCOME" -> "I" [] t = "EXPENSE" -> "T"

\* AccountType.from_sie_code raises ValueError unless some member has the code
FromSieCodeOk(code) == \E t \in AccountType : AccountTypeValue(t) = code

from_sie_code(code) == CHOOSE t \in AccountType : AccountTypeValue(t) = code

SieAccount(number, name, type) ==
    [number |-> number, name |-> name, type |-> type, sru_code |-> ""]

SieEntry(date, account_number, amount, description, voucher_index) ==
    [date |-> date, account_number |-> account_number, amount |-> amount,
     description |-> description, voucher_index |-> voucher_index]

SieBalance(account_number, period, amount, quantity) ==
    [account_number |-> account_number, period |-> period,
     amount |-> amount, quantity |-> quantity]

\* AccountType.normal_balance
normal_balance(type) ==
    IF type \in {"LIABILITY", "INCOME"} THEN "credit" ELSE "debit"

\* balance_multiplier taking only income for a credit classification
balance_multiplierIncomeOnly(type) ==
    IF type \in {"INCOME"} THEN -1 ELSE 1

\* AccountType.balance_multiplier
balance_multiplier(type) ==
    IF type \in {"LIABILITY", "INCOME"} THEN -1 ELSE 1

\* SieAccount.normal_balance and SieAccount.balance_multiplier: read from the
\* type the account has when the property is read
SieAccount_normal_balance(account) == normal_balance(account.type)

SieAccount_balance_multiplier(account) == balance_multiplier(account.type)

\* a dict as a function on its key set (for the collections whose order no
\* operation of parse_sie depends on)
EmptyDict == <<>>

DictPut(d, k, v) == [x \in DOMAIN d \cup {k} |-> IF x = k THEN v ELSE d[x]]

\* SieFile() with a currency preset
SieFilePresetCurrency ==
    [company_name |-> "", company_id |-> "", period_start |-> "",
     period_end |-> "", file_flag |-> "", file_format |-> "", sie_type |-> "",
     program |-> "", generation_date |-> "", file_number |-> "",
     currency |-> "SEK", tax_year |-> "", account_plan_type |-> "",
     contact_person |-> "", address_line1 |-> "", address_line2 |-> "",
     phone |-> "",
     accounts |-> EmptyDict, entries |-> <<>>, opening_balances |-> <<>>,
     closing_balances |-> <<>>, result_balances |-> <<>>,
     dimensions |-> EmptyDict, objects |-> EmptyDict, metadata |-> EmptyDict]

\* SieFile(): every string field empty, every collection empty
SieFile ==
    [company_name |-> "", company_id |-> "", period_start |-> "",
     period_end |-> "", file_flag |-> "", file_format |-> "", sie_type |-> "",
     program |-> "", generation_date |-> "", file_number |-> "",
     currency |-> "", tax_year |-> "", account_plan_type |-> "",
     contact_person |-> "", address_line1 |-> "", address_line2 |-> "",
     phone |-> "",
     accounts |-> EmptyDict, entries |-> <<>>, opening_balances |-> <<>>,
     closing_balances |-> <<>>, result_balances |-> <<>>,
     dimensions |-> EmptyDict, objects |-> EmptyDict, metadata |-> EmptyDict]

\* SieParseError(message, line_number, line_content); cause stands for the
\* text str(e) of the ValueError or IndexError that was caught
SieParseError(message, cause, line_number, line_content) ==
    [type |-> "SieParseError", message |-> message, cause |-> cause,
     line_number |-> line_number, line_content |-> line_content]

\* the parameters of SieParseError.__init__ after self
InitParameters == {"message", "line_number", "line_content"}

\* a call SieParseError(message, **keywords): a keyword that __init__ does not
\* have makes the call itself raise TypeError, and no SieParseError is built
NewSieParseError(message, cause, keywords) ==
    IF DOMAIN keywords \subseteq InitParameters
    THEN SieParseError(message, cause,
                       IF "line_number" \in DOMAIN keywords
                       THEN keywords.line_number ELSE None,
                       IF "line_content" \in DOMAIN keywords
                       THEN keywords.line_content ELSE "")
    ELSE [type |-> "TypeError",
          message |-> "SieParseError.__init__() got an unexpected keyword argument '"
                      \o (CHOOSE k \in DOMAIN keywords : k \notin InitParameters)
                      \o "'"]

\* insertion-ordered dict (ktyp_records, sru_records): assigning to a key that
\* is present replaces its value where it stands, a new key goes last
RECURSIVE OrderedPut(_, _, _)
OrderedPut(d, k, v) ==
    IF Len(d) = 0 THEN <<<<k, v>>>>
    ELSE IF d[1][1] = k THEN <<<<k, v>>>> \o Tail(d)
    ELSE <<d[1]>> \o OrderedPut(Tail(d), k, v)

-----------------------------------------------------------------------------
(* Classification.                                                         *)

\* Bas8xxx without the test on the length of the account number
Bas8xxxAnyLength(account_number) ==
    IF \E prefix \in {"801", "803", "808", "81", "82", "83"} :
           StartsWith(account_number, prefix)
    THEN "INCOME"
    ELSE "EXPENSE"

\* the refined table of the 8xxx accounts
Bas8xxx(account_number) ==
    IF Len(account_number) >= 4 THEN
        IF StartsWith(account_number, "801") THEN "INCOME"
        ELSE IF StartsWith(account_number, "802") THEN "EXPENSE"
        ELSE IF StartsWith(account_number, "803") THEN "INCOME"
        ELSE IF StartsWith(account_number, "807") THEN "EXPENSE"
        ELSE IF StartsWith(account_number, "808") THEN "INCOME"
        ELSE IF StartsWith(account_number, "81") THEN "INCOME"
        ELSE IF StartsWith(account_number, "82") THEN "INCOME"
        ELSE IF StartsWith(account_number, "83") THEN "INCOME"
        ELSE IF StartsWith(account_number, "84") THEN "EXPENSE"
        ELSE IF \/ StartsWith(account_number, "85")
                \/ StartsWith(account_number, "86")
                \/ StartsWith(account_number, "87") THEN "EXPENSE"
        ELSE IF StartsWith(account_number, "88") THEN "EXPENSE"
        ELSE IF StartsWith(account_number, "89") THEN "EXPENSE"
        ELSE "EXPENSE"
    ELSE "EXPENSE"

get_bas_account_type(account_number) ==
    IF Len(account_number) = 0 \/ ~IsDigit(account_number) THEN "EXPENSE"
    ELSE LET first_digit == Ch(account_number, 1) IN
         IF first_digit = "1" THEN "ASSET"
         ELSE IF first_digit = "2" THEN "LIABILITY"
         ELSE IF first_digit = "3" THEN "INCOME"
         ELSE IF first_digit \in {"4", "5", "6", "7"} THEN "EXPENSE"
         ELSE IF first_digit = "8" THEN Bas8xxx(account_number)
         ELSE "EXPENSE"

-----------------------------------------------------------------------------
(* Field decoders.                                                         *)

Quote == "\""

\* re.search(r'"([^"]*)"', line): the text between the first quote and the
\* next one, "" when the line has no pair of quotes
_extract_quoted_value(line) ==
    LET i == Find(line, Quote) IN
    IF i = -1 THEN ""
    ELSE LET rest == From(line, i + 1)
             j == Find(rest, Quote)
         IN IF j = -1 THEN "" ELSE SubSeq(rest, 1, j)

\* name[1:-1] when the name starts and ends with a quote
Dequote(name) ==
    IF StartsWith(name, Quote) /\ EndsWith(name, Quote)
    THEN SubSeq(name, 2, Len(name) - 1)
    ELSE name

\* line.split(' ', 1)[1].strip() if ' ' in line else ""
TrailingToken(line) ==
    IF Contains(line, " ") THEN Strip(SplitSpace(line, 1)[2]) ELSE ""

\* _extract_quoted_value(line) or line.split(' ', 1)[1].strip() if ' ' in line else ""
QuotedOrTrailing(line) ==
    IF Contains(line, " ")
    THEN IF _extract_quoted_value(line) # ""
         THEN _extract_quoted_value(line)
         ELSE Strip(SplitSpace(line, 1)[2])
    ELSE ""

\* the character loop of the #ADRESS branch: the quoted fields after the tag
RECURSIVE AddressParts(_, _, _, _, _)
AddressParts(line, i, current_part, in_quotes, parts) ==
    IF i >= Len(line) THEN parts
    ELSE LET char == Ch(line, i + 1) IN
         IF char = Quote THEN
             IF in_quotes
             THEN AddressParts(line, i + 1, "", FALSE, Append(parts, current_part))
             ELSE AddressParts(line, i + 1, current_part, TRUE, parts)
         ELSE IF in_quotes
         THEN AddressParts(line, i + 1, current_part \o char, in_quotes, parts)
         ELSE AddressParts(line, i + 1, current_part, in_quotes, parts)


-----------------------------------------------------------------------------
(* Record decoders of the scan loop.  A decoder that can raise returns a     *)
(* record whose exc field names the exception ("" when none is raised).      *)

\* #ORGNR: line.split(' ', 1)[1].strip(), with no test that the line has a space
OrgnrRecord(line) ==
    LET parts == SplitSpace(line, 1) IN
    IF Len(parts) >= 2
    THEN [exc |-> "", company_id |-> Strip(parts[2])]
    ELSE [exc |-> "IndexError", company_id |-> ""]

\* #RAR: the period dates of the record, kept only for period 0
RarRecord(sf, line) ==
    LET parts == SplitSpace(line, -1) IN
    IF Len(parts) >= 3 THEN
        IF IsDigit(LStripMinus(parts[2])) /\ ~IntOk(parts[2])
        THEN [exc |-> "ValueError", sf |-> sf]
        ELSE LET period == IF IsDigit(LStripMinus(parts[2])) THEN IntVal(parts[2]) ELSE 0 IN
             IF period = 0
             THEN [exc |-> "",
                   sf |-> [sf EXCEPT !.period_start = parts[3],
                                     !.period_end = IF Len(parts) > 3 THEN parts[4] ELSE ""]]
             ELSE [exc |-> "", sf |-> sf]
    ELSE [exc |-> "", sf |-> sf]

\* KontoRecord with the classification taken from the name field
KontoRecordTypeFromName(accounts, line) ==
    LET parts == SplitSpace(line, 2) IN
    IF Len(parts) >= 3
    THEN LET number == Strip(parts[2])
             name == Dequote(Strip(parts[3]))
             acc_type == get_bas_account_type(name)
         IN DictPut(accounts, number, SieAccount(number, name, acc_type))
    ELSE accounts

\* KontoRecord that keeps an account that is already declared
KontoRecordKeepFirst(accounts, line) ==
    LET parts == SplitSpace(line, 2) IN
    IF Len(parts) >= 3 /\ Strip(parts[2]) \notin DOMAIN accounts
    THEN LET number == Strip(parts[2])
             name == Dequote(Strip(parts[3]))
             acc_type == get_bas_account_type(number)
         IN DictPut(accounts, number, SieAccount(number, name, acc_type))
    ELSE accounts

\* #KONTO: the account is inserted, or replaces the account of the same number
KontoRecord(accounts, line) ==
    LET parts == SplitSpace(line, 2) IN
    IF Len(parts) >= 3
    THEN LET number == Strip(parts[2])
             name == Dequote(Strip(parts[3]))
             acc_type == get_bas_account_type(number)
         IN DictPut(accounts, number, SieAccount(number, name, acc_type))
    ELSE accounts

\* DeferRecord keeping every pair, the earlier ones for the same id as well
DeferRecordKeepingAll(records, line) ==
    LET parts == Split(line) IN
    IF Len(parts) >= 3 THEN Append(records, <<parts[2], parts[3]>>) ELSE records

\* #KTYP and #SRU: the pair is stored for the passes after the scan
DeferRecord(records, line) ==
    LET parts == Split(line) IN
    IF Len(parts) >= 3 THEN OrderedPut(records, parts[2], parts[3]) ELSE records

\* #DIM
DimRecord(dimensions, line) ==
    LET parts == SplitSpace(line, 2) IN
    IF Len(parts) >= 3
    THEN DictPut(dimensions, parts[2],
                 [number |-> parts[2], name |-> Dequote(Strip(parts[3]))])
    ELSE dimensions

\* #OBJEKT
ObjektRecord(objects, line) ==
    LET parts == SplitSpace(line, 3) IN
    IF Len(parts) >= 4
    THEN DictPut(objects, parts[2] \o ":" \o parts[3],
                 [dimension |-> parts[2], number |-> parts[3],
                  name |-> Dequote(Strip(parts[4]))])
    ELSE objects

\* BalanceRecord skipping a record whose numbers do not decode
BalanceRecordSkipping(line) ==
    LET parts == Split(line) IN
    IF /\ Len(parts) >= 4
       /\ IntOk(parts[2])
       /\ FloatOk(ReplaceComma(parts[4]))
       /\ (Len(parts) > 4 => FloatOk(ReplaceComma(parts[5])))
    THEN [exc |-> "",
          balances |-> <<SieBalance(parts[3], IntVal(parts[2]),
                                    FloatVal(ReplaceComma(parts[4])),
                                    IF Len(parts) > 4
                                    THEN FloatVal(ReplaceComma(parts[5]))
                                    ELSE Zero)>>]
    ELSE [exc |-> "", balances |-> <<>>]

\* BalanceRecord asking for a quantity field as well
BalanceRecordNeedsQuantity(line) ==
    LET parts == Split(line) IN
    IF Len(parts) >= 5 THEN
        IF \/ ~IntOk(parts[2])
           \/ ~FloatOk(ReplaceComma(parts[4]))
           \/ ~FloatOk(ReplaceComma(parts[5]))
        THEN [exc |-> "ValueError", balances |-> <<>>]
        ELSE [exc |-> "",
              balances |-> <<SieBalance(parts[3], IntVal(parts[2]),
                                        FloatVal(ReplaceComma(parts[4])),
                                        FloatVal(ReplaceComma(parts[5])))>>]
    ELSE [exc |-> "", balances |-> <<>>]

\* #IB, #UB, #RES: the balances the record appends (none or one)
BalanceRecord(line) ==
    LET parts == Split(line) IN
    IF Len(parts) >= 4 THEN
        IF \/ ~IntOk(parts[2])
           \/ ~FloatOk(ReplaceComma(parts[4]))
           \/ (Len(parts) > 4 /\ ~FloatOk(ReplaceComma(parts[5])))
        THEN [exc |-> "ValueError", balances |-> <<>>]
        ELSE [exc |-> "",
              balances |-> <<SieBalance(parts[3], IntVal(parts[2]),
                                        FloatVal(ReplaceComma(parts[4])),
                                        IF Len(parts) > 4
                                        THEN FloatVal(ReplaceComma(parts[5]))
                                        ELSE Zero)>>]
    ELSE [exc |-> "", balances |-> <<>>]

RECURSIVE Join(_)
Join(words) ==
    IF Len(words) = 0 THEN ""
    ELSE IF Len(words) = 1 THEN words[1]
    ELSE words[1] \o " " \o Join(Tail(words))

\* the loop that collects a quoted description spanning several tokens; i is
\* the 0-based index of the token looked at
RECURSIVE DescParts(_, _, _)
DescParts(parts, i, desc_parts) ==
    IF i >= Len(parts) THEN desc_parts
    ELSE IF EndsWith(parts[i + 1], Quote)
    THEN Append(desc_parts, SubSeq(parts[i + 1], 1, Len(parts[i + 1]) - 1))
    ELSE DescParts(parts, i + 1, Append(desc_parts, parts[i + 1]))

VerDescription(parts) ==
    IF Len(parts) >= 5 THEN
        IF StartsWith(parts[5], Quote) /\ EndsWith(parts[5], Quote)
        THEN SubSeq(parts[5], 2, Len(parts[5]) - 1)
        ELSE IF StartsWith(parts[5], Quote)
        THEN Join(DescParts(parts, 5, <<From(parts[5], 1)>>))
        ELSE parts[5]
    ELSE ""

\* VerRecord keeping the number as the series and the series as the number
VerRecordNumberFirst(voucher, in_block, line) ==
    LET parts == SplitSpace(line, -1) IN
    IF ~in_block /\ Len(parts) >= 4
    THEN <<[voucher_series |-> parts[3], voucher_index |-> parts[2],
            date |-> parts[4], description |-> VerDescription(parts)]>>
    ELSE voucher

\* VerRecord taking a header inside an open block as well
VerRecordInBlock(voucher, in_block, line) ==
    LET parts == SplitSpace(line, -1) IN
    IF Len(parts) >= 4
    THEN <<[voucher_series |-> parts[2], voucher_index |-> parts[3],
            date |-> parts[4], description |-> VerDescription(parts)]>>
    ELSE voucher

\* #VER: the header becomes the current voucher unless a block is open
VerRecord(voucher, in_block, line) ==
    LET parts == SplitSpace(line, -1) IN
    IF ~in_block /\ Len(parts) >= 4
    THEN <<[voucher_series |-> parts[2], voucher_index |-> parts[3],
            date |-> parts[4], description |-> VerDescription(parts)]>>
    ELSE voucher

\* the text of a #TRANS line after the object list
TransRemaining(rest) ==
    IF StartsWith(rest, "{") THEN
        LET brace_end == Find(rest, "}") IN
        IF brace_end # -1 THEN Strip(From(rest, brace_end + 1)) ELSE rest
    ELSE rest

\* TransRecord that asks for a current voucher only, not for an open block
TransRecordOutsideBlock(voucher, in_block, line) ==
    IF voucher # <<>> THEN
        LET parts == SplitSpace(line, 2) IN
        IF Len(parts) >= 3 THEN
            LET account_number == parts[2]
                remaining_parts == Split(TransRemaining(Strip(parts[3])))
                decode == Len(remaining_parts) > 0 /\ remaining_parts[1] # "{}"
                amount_str == ReplaceComma(remaining_parts[1])
            IN IF decode /\ ~FloatOk(amount_str)
               THEN [exc |-> "ValueError", entries |-> <<>>]
               ELSE [exc |-> "",
                     entries |-> <<SieEntry(voucher[1].date, account_number,
                                           IF decode THEN FloatVal(amount_str) ELSE Zero,
                                           voucher[1].description,
                                           voucher[1].voucher_series
                                               \o voucher[1].voucher_index)>>]
        ELSE [exc |-> "", entries |-> <<>>]
    ELSE [exc |-> "", entries |-> <<>>]

\* TransRecord that reads an amount only after an object list
TransRecordListRequired(voucher, in_block, line) ==
    IF in_block /\ voucher # <<>> THEN
        LET parts == SplitSpace(line, 2) IN
        IF Len(parts) >= 3 THEN
            LET account_number == parts[2]
                rest == Strip(parts[3])
                remaining_parts == IF StartsWith(rest, "{")
                                   THEN Split(TransRemaining(rest)) ELSE <<>>
                decode == Len(remaining_parts) > 0 /\ remaining_parts[1] # "{}"
                amount_str == ReplaceComma(remaining_parts[1])
            IN IF decode /\ ~FloatOk(amount_str)
               THEN [exc |-> "ValueError", entries |-> <<>>]
               ELSE [exc |-> "",
                     entries |-> <<SieEntry(voucher[1].date, account_number,
                                           IF decode THEN FloatVal(amount_str) ELSE Zero,
                                           voucher[1].description,
                                           voucher[1].voucher_series
                                               \o voucher[1].voucher_index)>>]
        ELSE [exc |-> "", entries |-> <<>>]
    ELSE [exc |-> "", entries |-> <<>>]

\* TransRecord decoding the amount before it looks at the block and the header
TransRecordDecodingFirst(voucher, in_block, line) ==
    LET parts == SplitSpace(line, 2) IN
    IF Len(parts) >= 3 THEN
        LET account_number == parts[2]
            remaining_parts == Split(TransRemaining(Strip(parts[3])))
            decode == Len(remaining_parts) > 0 /\ remaining_parts[1] # "{}"
            amount_str == ReplaceComma(remaining_parts[1])
        IN IF decode /\ ~FloatOk(amount_str)
           THEN [exc |-> "ValueError", entries |-> <<>>]
           ELSE IF in_block /\ voucher # <<>>
           THEN [exc |-> "",
                 entries |-> <<SieEntry(voucher[1].date, account_number,
                                       IF decode THEN FloatVal(amount_str) ELSE Zero,
                                       voucher[1].description,
                                       voucher[1].voucher_series
                                           \o voucher[1].voucher_index)>>]
           ELSE [exc |-> "", entries |-> <<>>]
    ELSE [exc |-> "", entries |-> <<>>]

\* TransRecord dating the Entry by the transaction date of the line when the
\* line has one
TransRecordOwnDate(voucher, in_block, line) ==
    IF in_block /\ voucher # <<>> THEN
        LET parts == SplitSpace(line, 2) IN
        IF Len(parts) >= 3 THEN
            LET account_number == parts[2]
                remaining_parts == Split(TransRemaining(Strip(parts[3])))
                decode == Len(remaining_parts) > 0 /\ remaining_parts[1] # "{}"
                amount_str == ReplaceComma(remaining_parts[1])
            IN IF decode /\ ~FloatOk(amount_str)
               THEN [exc |-> "ValueError", entries |-> <<>>]
               ELSE [exc |-> "",
                     entries |-> <<SieEntry(IF Len(remaining_parts) >= 2
                                            THEN remaining_parts[2]
                                            ELSE voucher[1].date,
                                           account_number,
                                           IF decode THEN FloatVal(amount_str) ELSE Zero,
                                           voucher[1].description,
                                           voucher[1].voucher_series
                                               \o voucher[1].voucher_index)>>]
        ELSE [exc |-> "", entries |-> <<>>]
    ELSE [exc |-> "", entries |-> <<>>]

\* #TRANS: the entries the line appends (none or one)
TransRecord(voucher, in_block, line) ==
    IF in_block /\ voucher # <<>> THEN
        LET parts == SplitSpace(line, 2) IN
        IF Len(parts) >= 3 THEN
            LET account_number == parts[2]
                remaining_parts == Split(TransRemaining(Strip(parts[3])))
                decode == Len(remaining_parts) > 0 /\ remaining_parts[1] # "{}"
                amount_str == ReplaceComma(remaining_parts[1])
            IN IF decode /\ ~FloatOk(amount_str)
               THEN [exc |-> "ValueError", entries |-> <<>>]
               ELSE [exc |-> "",
                     entries |-> <<SieEntry(voucher[1].date, account_number,
                                           IF decode THEN FloatVal(amount_str) ELSE Zero,
                                           voucher[1].description,
                                           voucher[1].voucher_series
                                               \o voucher[1].voucher_index)>>]
        ELSE [exc |-> "", entries |-> <<>>]
    ELSE [exc |-> "", entries |-> <<>>]

\* #ADRESS: up to four quoted fields
AdressRecord(sf, line) ==
    LET parts == AddressParts(line, 7, "", FALSE, <<>>) IN
    [sf EXCEPT !.contact_person = IF Len(parts) >= 1 THEN parts[1] ELSE @,
               !.address_line1 = IF Len(parts) >= 2 THEN parts[2] ELSE @,
               !.address_line2 = IF Len(parts) >= 3 THEN parts[3] ELSE @,
               !.phone = IF Len(parts) >= 4 THEN parts[4] ELSE @]


-----------------------------------------------------------------------------
(* The body of the scan loop for one stripped, non-empty line.  st holds the *)
(* locals of parse_sie that the loop reads and writes; the outcome is the    *)
(* exception caught by the try block ("" when none) and the new locals.      *)

Locals(sf, voucher, in_block, ktyp, sru) ==
    [sie_file |-> sf, current_voucher |-> voucher, in_voucher_block |-> in_block,
     ktyp_records |-> ktyp, sru_records |-> sru]

Ok(st) == [exc |-> "", st |-> st]

Raised(exc, st) == [exc |-> exc, st |-> st]

\* a { line
OpenBlock(st) == [st EXCEPT !.in_voucher_block = TRUE]

\* CloseBlock that leaves the current voucher in place
CloseBlockKeepingVoucher(st) == [st EXCEPT !.in_voucher_block = FALSE]

\* CloseBlock taking a } line for the end of an inner block
CloseBlockNested(st) == st

\* a } line
CloseBlock(st) == [st EXCEPT !.in_voucher_block = FALSE, !.current_voucher = <<>>]

Dispatch(st, line) ==
    LET sf == st.sie_file IN
    IF line = "{" THEN Ok(OpenBlock(st))
    ELSE IF line = "}" THEN Ok(CloseBlock(st))
    ELSE IF ~StartsWith(line, "#") THEN Ok(st)
    ELSE IF StartsWith(line, "#FLAGGA")
    THEN Ok([st EXCEPT !.sie_file.file_flag = TrailingToken(line)])
    ELSE IF StartsWith(line, "#FORMAT")
    THEN Ok([st EXCEPT !.sie_file.file_format = TrailingToken(line)])
    ELSE IF StartsWith(line, "#SIETYP")
    THEN Ok([st EXCEPT !.sie_file.sie_type = TrailingToken(line)])
    ELSE IF StartsWith(line, "#PROGRAM")
    THEN Ok([st EXCEPT !.sie_file.program = QuotedOrTrailing(line)])
    ELSE IF StartsWith(line, "#GEN")
    THEN Ok([st EXCEPT !.sie_file.generation_date = TrailingToken(line)])
    ELSE IF StartsWith(line, "#FNR")
    THEN Ok([st EXCEPT !.sie_file.file_number = QuotedOrTrailing(line)])
    ELSE IF StartsWith(line, "#VALUTA")
    THEN Ok([st EXCEPT !.sie_file.currency = TrailingToken(line)])
    ELSE IF StartsWith(line, "#TAXAR")
    THEN Ok([st EXCEPT !.sie_file.tax_year = TrailingToken(line)])
    ELSE IF StartsWith(line, "#KPTYP")
    THEN Ok([st EXCEPT !.sie_file.account_plan_type = TrailingToken(line)])
    ELSE IF StartsWith(line, "#ADRESS")
    THEN Ok([st EXCEPT !.sie_file = AdressRecord(sf, line)])
    ELSE IF StartsWith(line, "#FNAMN")
    THEN Ok([st EXCEPT !.sie_file.company_name = _extract_quoted_value(line)])
    ELSE IF StartsWith(line, "#ORGNR")
    THEN LET r == OrgnrRecord(line) IN
         IF r.exc # "" THEN Raised(r.exc, st)
         ELSE Ok([st EXCEPT !.sie_file.company_id = r.company_id])
    ELSE IF StartsWith(line, "#RAR")
    THEN LET r == RarRecord(sf, line) IN
         IF r.exc # "" THEN Raised(r.exc, st)
         ELSE Ok([st EXCEPT !.sie_file = r.sf])
    ELSE IF StartsWith(line, "#KONTO")
    THEN Ok([st EXCEPT !.sie_file.accounts = KontoRecord(sf.accounts, line)])
    ELSE IF StartsWith(line, "#KTYP")
    THEN Ok([st EXCEPT !.ktyp_records = DeferRecord(st.ktyp_records, line)])
    ELSE IF StartsWith(line, "#SRU")
    THEN Ok([st EXCEPT !.sru_records = DeferRecord(st.sru_records, line)])
    ELSE IF StartsWith(line, "#DIM")
    THEN Ok([st EXCEPT !.sie_file.dimensions = DimRecord(sf.dimensions, line)])
    ELSE IF StartsWith(line, "#OBJEKT")
    THEN Ok([st EXCEPT !.sie_file.objects = ObjektRecord(sf.objects, line)])
    ELSE IF StartsWith(line, "#IB")
    THEN LET r == BalanceRecord(line) IN
         IF r.exc # "" THEN Raised(r.exc, st)
         ELSE Ok([st EXCEPT !.sie_file.opening_balances = @ \o r.balances])
    ELSE IF StartsWith(line, "#UB")
    THEN LET r == BalanceRecord(line) IN
         IF r.exc # "" THEN Raised(r.exc, st)
         ELSE Ok([st EXCEPT !.sie_file.closing_balances = @ \o r.balances])
    ELSE IF StartsWith(line, "#RES")
    THEN LET r == BalanceRecord(line) IN
         IF r.exc # "" THEN Raised(r.exc, st)
         ELSE Ok([st EXCEPT !.sie_file.result_balances = @ \o r.balances])
    ELSE IF StartsWith(line, "#VER")
    THEN Ok([st EXCEPT !.current_voucher =
                 VerRecord(st.current_voucher, st.in_voucher_block, line)])
    ELSE IF StartsWith(line, "#TRANS")
    THEN LET r == TransRecord(st.current_voucher, st.in_voucher_block, line) IN
         IF r.exc # "" THEN Raised(r.exc, st)
         ELSE Ok([st EXCEPT !.sie_file.entries = @ \o r.entries])
    ELSE Ok(st)

-----------------------------------------------------------------------------
(* The passes after the scan.                                                *)

\* the first (account number, code) pair, in dict order, whose code
\* from_sie_code rejects; <<>> when there is none
RECURSIVE FirstInvalidKtyp(_)
FirstInvalidKtyp(records) ==
    IF Len(records) = 0 THEN <<>>
    ELSE IF ~FromSieCodeOk(records[1][2]) THEN <<records[1]>>
    ELSE FirstInvalidKtyp(Tail(records))

\* the pairs the second pass handles before it raises
RECURSIVE ValidPrefix(_)
ValidPrefix(records) ==
    IF Len(records) = 0 \/ ~FromSieCodeOk(records[1][2]) THEN <<>>
    ELSE <<records[1]>> \o ValidPrefix(Tail(records))

\* ApplyKtyp that leaves the accounts that are already declared as they are
RECURSIVE ApplyKtypPlaceholderOnly(_, _)
ApplyKtypPlaceholderOnly(accounts, records) ==
    IF Len(records) = 0 THEN accounts
    ELSE LET account_number == records[1][1]
             account_type == from_sie_code(records[1][2])
         IN ApplyKtypPlaceholderOnly(
                IF account_number \in DOMAIN accounts
                THEN accounts
                ELSE DictPut(accounts, account_number,
                             SieAccount(account_number,
                                        "Account " \o account_number, account_type)),
                Tail(records))

\* ApplyKtyp that handles the first buffered pair only
ApplyKtypFirstOnly(accounts, records) ==
    IF Len(records) = 0 THEN accounts
    ELSE LET account_number == records[1][1]
             account_type == from_sie_code(records[1][2])
         IN IF account_number \in DOMAIN accounts
            THEN [accounts EXCEPT ![account_number].type = account_type]
            ELSE DictPut(accounts, account_number,
                         SieAccount(account_number,
                                    "Account " \o account_number, account_type))

\* ApplyKtyp naming a missing account by its number alone
RECURSIVE ApplyKtypNumberAsName(_, _)
ApplyKtypNumberAsName(accounts, records) ==
    IF Len(records) = 0 THEN accounts
    ELSE LET account_number == records[1][1]
             account_type == from_sie_code(records[1][2])
         IN ApplyKtypNumberAsName(
                IF account_number \in DOMAIN accounts
                THEN [accounts EXCEPT ![account_number].type = account_type]
                ELSE DictPut(accounts, account_number,
                             SieAccount(account_number, account_number, account_type)),
                Tail(records))

\* second pass: the type of an existing account is replaced, a missing
\* account is created with a placeholder name
RECURSIVE ApplyKtyp(_, _)
ApplyKtyp(accounts, records) ==
    IF Len(records) = 0 THEN accounts
    ELSE LET account_number == records[1][1]
             account_type == from_sie_code(records[1][2])
         IN ApplyKtyp(
                IF account_number \in DOMAIN accounts
                THEN [accounts EXCEPT ![account_number].type = account_type]
                ELSE DictPut(accounts, account_number,
                             SieAccount(account_number,
                                        "Account " \o account_number, account_type)),
                Tail(records))

\* ApplySru that creates an account for a code whose account is missing
RECURSIVE ApplySruCreating(_, _)
ApplySruCreating(accounts, records) ==
    IF Len(records) = 0 THEN accounts
    ELSE LET account_number == records[1][1]
             sru_code == records[1][2]
         IN ApplySruCreating(
                IF account_number \in DOMAIN accounts
                THEN [accounts EXCEPT ![account_number].sru_code = sru_code]
                ELSE DictPut(accounts, account_number,
                             [SieAccount(account_number, "Account " \o account_number,
                                         get_bas_account_type(account_number))
                                 EXCEPT !.sru_code = sru_code]),
                Tail(records))

\* third pass: the code is set on accounts that exist, other pairs are skipped
RECURSIVE ApplySru(_, _)
ApplySru(accounts, records) ==
    IF Len(records) = 0 THEN accounts
    ELSE LET account_number == records[1][1]
             sru_code == records[1][2]
         IN ApplySru(
                IF account_number \in DOMAIN accounts
                THEN [accounts EXCEPT ![account_number].sru_code = sru_code]
                ELSE accounts,
                Tail(records))

-----------------------------------------------------------------------------
(* Actions.                                                                  *)

\* ScanLine decoding the code of a #KTYP record when the record is scanned
ScanLineDecodingKtyp ==
    /\ pc = "scan"
    /\ line_num < Len(lines)
    /\ line_num' = line_num + 1
    /\ LET line == Strip(lines[line_num + 1])
           out == Dispatch(Locals(sie_file, current_voucher, in_voucher_block,
                                  ktyp_records, sru_records), line)
           bad == /\ StartsWith(line, "#KTYP")
                  /\ Len(Split(line)) >= 3
                  /\ ~FromSieCodeOk(Split(line)[3])
       IN IF Len(line) = 0
          THEN UNCHANGED <<pc, sie_file, current_voucher, in_voucher_block,
                           ktyp_records, sru_records, err>>
          ELSE IF out.exc # "" \/ bad
          THEN /\ pc' = "error"
               /\ err' = <<SieParseError("Error parsing line", out.exc,
                                         line_num + 1, line)>>
               /\ UNCHANGED <<sie_file, current_voucher, in_voucher_block,
                              ktyp_records, sru_records>>
          ELSE /\ sie_file' = out.st.sie_file
               /\ current_voucher' = out.st.current_voucher
               /\ in_voucher_block' = out.st.in_voucher_block
               /\ ktyp_records' = out.st.ktyp_records
               /\ sru_records' = out.st.sru_records
               /\ UNCHANGED <<pc, err>>
    /\ UNCHANGED <<lines, result, calls, cli>>

\* one iteration of the scan loop: strip the line, skip it when empty, else
\* dispatch on its tag; ValueError and IndexError become a SieParseError
\* carrying the line number and the stripped line
ScanLine ==
    /\ pc = "scan"
    /\ line_num < Len(lines)
    /\ line_num' = line_num + 1
    /\ LET line == Strip(lines[line_num + 1])
           out == Dispatch(Locals(sie_file, current_voucher, in_voucher_block,
                                  ktyp_records, sru_records), line)
       IN IF Len(line) = 0
          THEN UNCHANGED <<pc, sie_file, current_voucher, in_voucher_block,
                           ktyp_records, sru_records, err>>
          ELSE IF out.exc # ""
          THEN /\ pc' = "error"
               /\ err' = <<SieParseError("Error parsing line", out.exc,
                                         line_num + 1, line)>>
               /\ UNCHANGED <<sie_file, current_voucher, in_voucher_block,
                              ktyp_records, sru_records>>
          ELSE /\ sie_file' = out.st.sie_file
               /\ current_voucher' = out.st.current_voucher
               /\ in_voucher_block' = out.st.in_voucher_block
               /\ ktyp_records' = out.st.ktyp_records
               /\ sru_records' = out.st.sru_records
               /\ UNCHANGED <<pc, err>>
    /\ UNCHANGED <<lines, result, calls, cli>>

\* SecondPass refusing an input that ends inside an open block
SecondPassClosedOnly ==
    /\ pc = "scan"
    /\ line_num = Len(lines)
    /\ IF in_voucher_block
       THEN /\ pc' = "error"
            /\ err' = <<SieParseError("Unterminated block", "", None, "")>>
            /\ UNCHANGED sie_file
       ELSE /\ pc' = "sru"
            /\ sie_file' = [sie_file EXCEPT
                               !.accounts = ApplyKtyp(sie_file.accounts, ktyp_records)]
            /\ UNCHANGED err
    /\ UNCHANGED <<lines, line_num, current_voucher, in_voucher_block,
                   ktyp_records, sru_records, result, calls, cli>>

\* the second pass, run when the scan loop has consumed every line: on the
\* first code that is not an AccountType value it raises, with the keyword
\* line_num in the SieParseError call; else it applies all pairs
SecondPass ==
    /\ pc = "scan"
    /\ line_num = Len(lines)
    /\ LET bad == FirstInvalidKtyp(ktyp_records) IN
       IF bad # <<>>
       THEN /\ pc' = "error"
            /\ err' = <<NewSieParseError(
                             "Invalid account type in KTYP",
                             "Unknown SIE account type code: " \o bad[1][2],
                             [line_num |-> None,
                              line_content |-> "#KTYP " \o bad[1][1] \o " " \o bad[1][2]])>>
            /\ sie_file' = [sie_file EXCEPT
                               !.accounts = ApplyKtyp(sie_file.accounts,
                                                      ValidPrefix(ktyp_records))]
       ELSE /\ pc' = "sru"
            /\ sie_file' = [sie_file EXCEPT
                               !.accounts = ApplyKtyp(sie_file.accounts, ktyp_records)]
            /\ UNCHANGED err
    /\ UNCHANGED <<lines, line_num, current_voucher, in_voucher_block,
                   ktyp_records, sru_records, result, calls, cli>>

\* ThirdPass dropping the entries whose account is not in the Document
ThirdPassPruningEntries ==
    /\ pc = "sru"
    /\ pc' = "done"
    /\ LET accounts == ApplySru(sie_file.accounts, sru_records)
           Known(entry) == entry.account_number \in DOMAIN accounts
       IN sie_file' = [sie_file EXCEPT !.accounts = accounts,
                                       !.entries = SelectSeq(@, Known)]
    /\ result' = <<sie_file'>>
    /\ UNCHANGED <<lines, line_num, current_voucher, in_voucher_block,
                   ktyp_records, sru_records, err, calls, cli>>

\* the third pass and the return of the SieFile
ThirdPass ==
    /\ pc = "sru"
    /\ pc' = "done"
    /\ sie_file' = [sie_file EXCEPT
                       !.accounts = ApplySru(sie_file.accounts, sru_records)]
    /\ result' = <<sie_file'>>
    /\ UNCHANGED <<lines, line_num, current_voucher, in_voucher_block,
                   ktyp_records, sru_records, err, calls, cli>>

Next == ScanLine \/ SecondPass \/ ThirdPass

-----------------------------------------------------------------------------
(* sie_cli.main and parse_sie_file.                                          *)

\* cli when parse_sie is called directly and no command runs
NoCommand ==
    [args |-> <<>>, exists |-> TRUE, utf8 |-> TRUE,
     stdout |-> <<>>, stderr |-> <<>>, exit_code |-> <<>>]

\* str(n) of a natural number
RECURSIVE Decimal(_)
Decimal(n) ==
    IF n < 10 THEN SubSeq("0123456789", n + 1, n + 1)
    ELSE Decimal(n \div 10) \o SubSeq("0123456789", (n % 10) + 1, (n % 10) + 1)

\* str(e): for a SieParseError the message __init__ hands to Exception, with
\* the line number in front and the stripped line content behind when given
ErrorText(e) ==
    IF e.type = "SieParseError" THEN
        LET message == IF e.cause # "" THEN e.message \o ": " \o e.cause ELSE e.message IN
        IF e.line_number # None
        THEN "Line " \o Decimal(e.line_number) \o ": " \o message
                 \o (IF e.line_content # ""
                     THEN " ('" \o Strip(e.line_content) \o "')" ELSE "")
        ELSE message
    ELSE e.message

\* the bytes of the file decode in the encoding asked for: cp437 maps every
\* byte, utf-8 does not
Decodes(c) == c.args[1].encoding = "cp437" \/ c.utf8

\* parse_sie_file up to the scan loop of parse_sie: open() raises
\* FileNotFoundError for a missing file, file.read() raises UnicodeDecodeError,
\* which becomes a SieParseError without line number
OpenFile ==
    /\ pc = "main"
    /\ IF ~cli.exists
       THEN /\ pc' = "error"
            /\ err' = <<[type |-> "FileNotFoundError",
                         message |-> "[Errno 2] No such file or directory: '"
                                     \o cli.args[1].file \o "'"]>>
       ELSE IF ~Decodes(cli)
       THEN /\ pc' = "error"
            /\ err' = <<NewSieParseError(
                            "File is not properly encoded in " \o cli.args[1].encoding
                            \o ". According to the SIE 4B specification, SIE files must"
                            \o " use CP437 encoding (IBM PC 8-bits extended ASCII). Error",
                            "UnicodeDecodeError", <<>>)>>
       ELSE /\ pc' = "scan"
            /\ UNCHANGED err
    /\ UNCHANGED <<lines, line_num, sie_file, current_voucher, in_voucher_block,
                   ktyp_records, sru_records, result, calls, cli>>

\* the first line a report prints; the lines after it are a function of the
\* arguments and the Document and are kept as that pair
ReportHeader(args) ==
    IF args.command = "accounts" THEN
        IF args.csv THEN "number,name,type,balance,normal_balance,sru_code"
        ELSE "Account    Name                           Type       Balance         Normal   SRU     "
    ELSE IF args.command = "vouchers" THEN
        IF args.csv THEN "voucher,date,description,transactions,total_amount,balance,balanced"
        ELSE "Voucher    Date       Description               Trans  Amount       Balance      Bal? "
    ELSE
        IF args.csv
        THEN "company_name,company_id,period_start,period_end,file_format,sie_type,"
             \o "currency,program,generation_date,contact_person,address_line1,"
             \o "address_line2,phone,total_accounts,non_zero_accounts,total_entries,"
             \o "total_vouchers,balanced_vouchers,opening_balances,closing_balances,"
             \o "dimensions,objects"
        ELSE "SIE File Summary"

\* main after parse_sie_file has returned: the requested report goes to
\* standard output
RunCommand ==
    /\ pc = "done"
    /\ cli.args # <<>>
    /\ pc' = "exit"
    /\ cli' = [cli EXCEPT !.stdout = <<ReportHeader(cli.args[1]),
                                       [rows_of |-> cli.args[1], sie_data |-> result[1]]>>,
                          !.exit_code = <<0>>]
    /\ UNCHANGED <<lines, line_num, sie_file, current_voucher, in_voucher_block,
                   ktyp_records, sru_records, err, result, calls>>

\* HandleError printing the text of a SieParseError under the heading of the
\* unexpected errors
DiagnosticUnexpected(e, args) ==
    IF e.type = "FileNotFoundError"
    THEN "Error: File '" \o args.file \o "' not found"
    ELSE "Unexpected error: " \o ErrorText(e)

\* the except clauses of main: one line on standard error
Diagnostic(e, args) ==
    IF e.type = "FileNotFoundError"
    THEN "Error: File '" \o args.file \o "' not found"
    ELSE IF e.type = "SieParseError"
    THEN "Error parsing SIE file: " \o ErrorText(e)
    ELSE "Unexpected error: " \o ErrorText(e)

\* main after parse_sie_file has raised: the diagnostic and sys.exit(1)
HandleError ==
    /\ pc = "error"
    /\ cli.args # <<>>
    /\ pc' = "exit"
    /\ cli' = [cli EXCEPT !.stderr = <<Diagnostic(err[1], cli.args[1])>>,
                          !.exit_code = <<1>>]
    /\ UNCHANGED <<lines, line_num, sie_file, current_voucher, in_voucher_block,
                   ktyp_records, sru_records, err, result, calls>>

NextMain == OpenFile \/ ScanLine \/ SecondPass \/ ThirdPass \/ RunCommand \/ HandleError

\* the command lines: a command, a path, the flags
Arguments ==
    [command : {"accounts", "vouchers", "summary"}, file : {"book.se"},
     csv : BOOLEAN, non_zero : BOOLEAN, encoding : {"cp437", "utf-8"}]

\* main before parse_sie_file is called, for a file of the given lines
StartMain(args, exists, utf8, input) ==
    /\ lines = IF exists /\ (args.encoding = "cp437" \/ utf8) THEN input ELSE <<>>
    /\ line_num = 0
    /\ pc = "main"
    /\ sie_file = SieFile
    /\ current_voucher = <<>>
    /\ in_voucher_block = FALSE
    /\ ktyp_records = <<>>
    /\ sru_records = <<>>
    /\ err = <<>>
    /\ result = <<>>
    /\ calls = <<>>
    /\ cli = [args |-> <<args>>, exists |-> exists, utf8 |-> utf8,
              stdout |-> <<>>, stderr |-> <<>>, exit_code |-> <<>>]

\* the locals of parse_sie before the scan loop, for the given lines
Start(input) ==
    /\ lines = input
    /\ line_num = 0
    /\ pc = "scan"
    /\ sie_file = SieFile
    /\ current_voucher = <<>>
    /\ in_voucher_block = FALSE
    /\ ktyp_records = <<>>
    /\ sru_records = <<>>
    /\ err = <<>>
    /\ result = <<>>
    /\ calls = <<>>
    /\ cli = NoCommand

\* every sequence of at most n elements of the set S
RECURSIVE SeqsUpTo(_, _)
SeqsUpTo(S, n) ==
    IF n = 0 THEN {<<>>}
    ELSE LET shorter == SeqsUpTo(S, n - 1) IN
         shorter \cup {Append(q, x) : q \in shorter, x \in S}

-----------------------------------------------------------------------------
(* Repeated invocations of parse_sie.                                        *)

\* the lines of the contents parsed one after another
CallLines == {"#VER A 1 20240101", "{", "#TRANS 1910 {} 5", "#KTYP 1910 X"}

\* what an invocation that has ended leaves behind for its caller
Ended == [input |-> lines, returned |-> result, raised |-> err]

\* Call with in_voucher_block and current_voucher kept from the invocation
\* before, as module-level variables would be
CallKeepingScope ==
    /\ pc \in {"done", "error"}
    /\ Len(calls) < MaxCalls
    /\ calls' = Append(calls, Ended)
    /\ \E input \in IF Len(calls) = 0 THEN SeqsUpTo(CallLines, MaxCallLines)
                    ELSE {calls[1].input} :
           lines' = input
    /\ line_num' = 0
    /\ pc' = "scan"
    /\ sie_file' = SieFile
    /\ ktyp_records' = <<>>
    /\ sru_records' = <<>>
    /\ err' = <<>>
    /\ result' = <<>>
    /\ UNCHANGED <<cli, current_voucher, in_voucher_block>>

\* parse_sie is called again after an invocation has returned or raised: the
\* function builds a new SieFile and new locals.  The caller parses any
\* content as its second content, and otherwise parses its first content again.
Call ==
    /\ pc \in {"done", "error"}
    /\ Len(calls) < MaxCalls
    /\ calls' = Append(calls, Ended)
    /\ \E input \in IF Len(calls) = 0 THEN SeqsUpTo(CallLines, MaxCallLines)
                    ELSE {calls[1].input} :
           lines' = input
    /\ line_num' = 0
    /\ pc' = "scan"
    /\ sie_file' = SieFile
    /\ current_voucher' = <<>>
    /\ in_voucher_block' = FALSE
    /\ ktyp_records' = <<>>
    /\ sru_records' = <<>>
    /\ err' = <<>>
    /\ result' = <<>>
    /\ UNCHANGED cli

NextCalls == ScanLine \/ SecondPass \/ ThirdPass \/ Call


-----------------------------------------------------------------------------
(* Specifications: parse_sie run on every input of at most MaxLines lines    *)
(* drawn from a set of lines.                                                *)

\* chart-of-accounts records: declarations, type overrides (valid, invalid,
\* repeated, for an undeclared account), tax codes, and a malformed balance
AccountLines ==
    {"#KONTO 1910 Kassa", "#KONTO 1910 \"Bank\"", "#KONTO 3010 Sales",
     "#KTYP 1910 I", "#KTYP 1910 S", "#KTYP 1910 X",
     "#KTYP 2440 K", "#KTYP 2440 q",
     "#SRU 1910 7281", "#SRU 1910 7282", "#SRU 2440 7365",
     "#IB 0 1910 abc"}

Init == \E input \in SeqsUpTo(AccountLines, MaxLines) : Start(input)

Spec == Init /\ [][Next]_vars

\* vouchers: a header, the block delimiters, and ledger lines that are well
\* formed (indented, decimal comma), without an amount, without anything
\* after the account, or with a malformed amount
VoucherLines ==
    {"#VER A 1 20240101 \"Sale\"", "{", "}",
     "   #TRANS 1910 {} 100,50", "#TRANS 1910 {}", "#TRANS 1910",
     "#TRANS 3010 {} 1O0"}

InitVoucher == \E input \in SeqsUpTo(VoucherLines, MaxVoucherLines) : Start(input)

SpecVoucher == InitVoucher /\ [][Next]_vars

\* every string of at most n characters of the set
RECURSIVE StringsUpTo(_, _)
StringsUpTo(chars, n) ==
    IF n = 0 THEN {""}
    ELSE LET shorter == StringsUpTo(chars, n - 1) IN
         shorter \cup {t \o c : t \in shorter, c \in chars}

\* account numbers: every string of at most MaxIdLen digits or letters x,
\* alone or with one more character
AccountNumbers ==
    {t \o last : t \in StringsUpTo(Digits \cup {"x"}, MaxIdLen), last \in {"", "0", "x"}}

\* one declaration of one account number
InitBas == \E number \in AccountNumbers : Start(<<"#KONTO " \o number \o " N">>)

SpecBas == InitBas /\ [][Next]_vars

\* balance records and ledger lines with numbers that decode and that do not,
\* among a header, a block, a blank line and a line of an unknown tag
NumericLines ==
    {"#VER A 1 20240101", "{", "", "#XYZ 1",
     "#TRANS 1910 {} 5", "#TRANS 1910 {} 1O0",
     "#IB 0 1910 5,5", "#IB 0 1910 abc", "  #UB x 1910 5,5 ",
     "#RES 0 1910 5 q", "#RES x 1910"}

InitNumeric == \E input \in SeqsUpTo(NumericLines, MaxLines) : Start(input)

SpecNumeric == InitNumeric /\ [][Next]_vars

\* every recognized tag with no field at all, and the multi-field records
\* with their last required field missing
ShortLines ==
    {"#FLAGGA", "#FORMAT", "#SIETYP", "#PROGRAM", "#GEN", "#FNR", "#VALUTA",
     "#TAXAR", "#KPTYP", "#ADRESS", "#FNAMN", "#ORGNR", "#RAR", "#KONTO",
     "#KTYP", "#SRU", "#DIM", "#OBJEKT", "#IB", "#UB", "#RES", "#VER", "#TRANS",
     "#RAR 0", "#KONTO 1910", "#KTYP 1910", "#SRU 1910", "#DIM 1",
     "#OBJEKT 1 2", "#IB 0 1910", "#VER A 1", "#TRANS 1910"}

InitShort == \E input \in SeqsUpTo(ShortLines, MaxShortLines) : Start(input)

SpecShort == InitShort /\ [][Next]_vars

\* blank lines, stray text and lines of tags that are not recognized, among
\* a header, a block and the records of an account
IgnoredLines ==
    {"", "   ", "stray text", "#XYZ 1 2", "#KONTOX 1910 B", "#IBX 0 1910 abc",
     "#VER A 1 20240101", "{", "}", "#KONTO 1910 Kassa", "#KTYP 1910 T",
     "#SRU 1910 7281"}

InitIgnored == \E input \in SeqsUpTo(IgnoredLines, MaxLines) : Start(input)

SpecIgnored == InitIgnored /\ [][Next]_vars

\* two voucher headers, the braces and two ledger lines
HeaderLines ==
    {"#VER A 1 20240101 \"Sale\"", "#VER B 22 20240102", "{", "}",
     "#TRANS 1910 {} 100,50", "#TRANS 3010 {} -5"}

InitHeaders == \E input \in SeqsUpTo(HeaderLines, MaxVoucherLines) : Start(input)

SpecHeaders == InitHeaders /\ [][Next]_vars

\* balance records of the three tags: repeated (account, period) pairs, a
\* quantity, a prior period, a record without amount and an amount that does
\* not decode
BalanceLines ==
    {"#IB 0 1910 5,5", "#IB 0 1910 7", "#IB -1 1910 5,5",
     "#UB 0 1910 5,5", "#UB 0 1910 5,5 2",
     "#RES 0 3010 -5", "#RES 0 3010", "#RES 0 3010 abc"}

InitBalances == \E input \in SeqsUpTo(BalanceLines, MaxLines) : Start(input)

SpecBalances == InitBalances /\ [][Next]_vars

\* the declaration, override and tax code of one account, the override and
\* tax code of an account without declaration, and an override that is not
\* one of the four letters
OrderLines ==
    {"#KONTO 1910 Kassa", "#KTYP 1910 S", "#SRU 1910 7281",
     "#KTYP 2440 K", "#SRU 2440 7365", "#KONTO 3010 Sales", "#KTYP 3010 X"}

InitOrder == \E input \in SeqsUpTo(OrderLines, MaxLines) : Start(input)

SpecOrder == InitOrder /\ [][Next]_vars

\* a voucher with two ledger lines next to an override, a tax code and an
\* opening balance
FrameLines ==
    {"#VER A 1 20240101", "{", "#TRANS 1910 {} 5", "#TRANS 3010 {} -5",
     "#KTYP 1910 S", "#SRU 1910 7281", "#IB 0 1910 5,5"}

InitFrame == \E input \in SeqsUpTo(FrameLines, MaxVoucherLines) : Start(input)

SpecFrame == InitFrame /\ [][Next]_vars

\* period records of the current year, of the previous year, with an index
\* that is no number, and without an end date
PeriodLines ==
    {"#RAR 0 20240101 20241231", "#RAR -1 20230101 20231231",
     "#RAR x 20220101 20221231", "#RAR 0 20250101", "#RAR 1"}

InitPeriod == \E input \in SeqsUpTo(PeriodLines, MaxLines) : Start(input)

SpecPeriod == InitPeriod /\ [][Next]_vars

\* the company name, the program and the file number, each given once in
\* quotes and once as bare text
QuotedLines ==
    {"#FNAMN \"Acme AB\"", "#FNAMN Acme", "#PROGRAM \"Prog\" 1.0",
     "#PROGRAM Prog 1.0", "#FNR \"7\"", "#FNR 7"}

InitQuoted == \E input \in SeqsUpTo(QuotedLines, MaxLines) : Start(input)

SpecQuoted == InitQuoted /\ [][Next]_vars

\* ledger lines with and without an object list, with {} for the amount and
\* with fields after the amount
AmountLines ==
    {"#VER A 1 20240101", "{", "#TRANS 1910 100,50", "#TRANS 3010 -5 20240102",
     "#TRANS 1910 {} {}", "#TRANS 1910 {1 \"a\"} {} x", "#TRANS 1910 {} 7"}

InitAmount == \E input \in SeqsUpTo(AmountLines, MaxVoucherLines) : Start(input)

SpecAmount == InitAmount /\ [][Next]_vars

\* lines with numeric text that cannot be decoded (a ledger amount, a balance
\* amount, a balance period) next to an invalid and a valid override
PrecedenceLines ==
    {"#VER A 1 20240101", "{", "#TRANS 1910 {} 1O0", "#IB 0 1910 abc",
     "#UB x 1910 5", "#KTYP 1910 X", "#KTYP 1910 S"}

InitPrecedence == \E input \in SeqsUpTo(PrecedenceLines, MaxVoucherLines) : Start(input)

SpecPrecedence == InitPrecedence /\ [][Next]_vars

\* a header, brace lines and a ledger line, in inputs long enough for a block
\* opened twice, closed once and followed by a ledger line and another }
NestingLines == {"#VER A 1 20240101", "{", "}", "#TRANS 1910 {} 5"}

InitNesting == \E input \in SeqsUpTo(NestingLines, MaxNestingLines) : Start(input)

SpecNesting == InitNesting /\ [][Next]_vars

\* ledger lines with and without a transaction date, a transaction text, a
\* quantity and a signature, under two headers
LedgerLines ==
    {"#VER A 1 20240101 \"Sale\"", "#VER B 2 20240303", "{", "}",
     "#TRANS 1910 {} 5", "#TRANS 1910 {} 5 20240202",
     "#TRANS 1910 {} 5 20240202 \"Own text\" 3 sig"}

InitLedger == \E input \in SeqsUpTo(LedgerLines, MaxVoucherLines) : Start(input)

SpecLedger == InitLedger /\ [][Next]_vars

\* contents that leave a block open, that record an Entry when a block is
\* open, and that buffer an override whose code makes the parse fail
InitCalls == \E input \in SeqsUpTo(CallLines, MaxCallLines) : Start(input)

SpecCalls == InitCalls /\ [][NextCalls]_vars

\* the command line tool on files that parse, that fail in the scan and that
\* fail in the override pass, on a missing file and on bytes that do not decode
CliLines == {"#FNAMN \"Co\"", "#KONTO 1910 Kassa", "#IB 0 1910 abc", "#KTYP 1910 X"}

InitMain ==
    \E args \in Arguments, exists \in BOOLEAN, utf8 \in BOOLEAN,
       input \in SeqsUpTo(CliLines, MaxLines) :
        StartMain(args, exists, utf8, input)

SpecMain == InitMain /\ [][NextMain]_vars


-----------------------------------------------------------------------------
(* The input as the claims speak of it: records read off the lines of the    *)
(* input, independently of the state of the scan.                            *)

Fields(i) == Split(lines[i])

\* line i is a record of the given tag with at least n fields after the tag
IsRecord(i, tag, n) == Len(Fields(i)) >= n + 1 /\ Fields(i)[1] = tag

RecordId(i) == Fields(i)[2]

RecordCode(i) == Fields(i)[3]

Declares(i, id) == IsRecord(i, "#KONTO", 2) /\ RecordId(i) = id

Overrides(i, id) == IsRecord(i, "#KTYP", 2) /\ RecordId(i) = id

TaxCodes(i, id) == IsRecord(i, "#SRU", 2) /\ RecordId(i) = id

LineNumbers == 1..Len(lines)

\* no later record of the same kind names the same id
LastOverride(i) == ~\E j \in LineNumbers : j > i /\ Overrides(j, RecordId(i))

LastTaxCode(i) == ~\E j \in LineNumbers : j > i /\ TaxCodes(j, RecordId(i))

LastDeclaration(i) == ~\E j \in LineNumbers : j > i /\ Declares(j, RecordId(i))

\* the classification each of the four letters stands for
Classification == [K |-> "ASSET", S |-> "LIABILITY", I |-> "INCOME", T |-> "EXPENSE"]

ValidCode(code) == code \in DOMAIN Classification

\* every id some record of the input names
InputIds == {RecordId(i) : i \in {j \in LineNumbers : Len(Fields(j)) >= 2}}

Returned == pc = "done"

Failed == pc = "error"

Document == result[1]

-----------------------------------------------------------------------------
(* C1 *)

\* C1 as stated: for every #KTYP record with a valid code, the account of its
\* id in the returned Document has the classification the code stands for.
C1_EveryOverrideRecord ==
    Returned =>
        \A i \in LineNumbers :
            (IsRecord(i, "#KTYP", 2) /\ ValidCode(RecordCode(i))) =>
                /\ RecordId(i) \in DOMAIN Document.accounts
                /\ Document.accounts[RecordId(i)].type = Classification[RecordCode(i)]

\* C1, amended: for every id, the last #KTYP record for it in file order, when
\* its code is valid, gives the classification of the account of that id in the
\* returned Document, whether the #KONTO record of the id stands before or
\* after it (or is missing).
C1_LastOverrideRecord ==
    Returned =>
        \A i \in LineNumbers :
            (IsRecord(i, "#KTYP", 2) /\ LastOverride(i) /\ ValidCode(RecordCode(i))) =>
                /\ RecordId(i) \in DOMAIN Document.accounts
                /\ Document.accounts[RecordId(i)].type = Classification[RecordCode(i)]

\* an override that stands before the declaration of its account has decided
\* the classification, against the default of the identifier
C1_OverrideBeforeDeclaration ==
    /\ Returned
    /\ \E i, j \in LineNumbers :
          /\ i < j
          /\ IsRecord(i, "#KTYP", 2) /\ LastOverride(i)
          /\ Declares(j, RecordId(i))
          /\ Document.accounts[RecordId(i)].type = Classification[RecordCode(i)]
          /\ Document.accounts[RecordId(i)].type # get_bas_account_type(RecordId(i))


-----------------------------------------------------------------------------
(* C2 *)

\* the scan loop is about to handle line n
Scanning(n) == pc = "scan" /\ n = line_num + 1 /\ n <= Len(lines)

LedgerLine(n) == IsRecord(n, "#TRANS", 0)

Opens(j) == Strip(lines[j]) = "{"

Closes(j) == Strip(lines[j]) = "}"

NoCloseBetween(j, n) == \A k \in (j + 1)..(n - 1) : ~Closes(k)

\* line n stands after a { line with no } line in between
BlockOpenAt(n) == \E j \in 1..(n - 1) : Opens(j) /\ NoCloseBetween(j, n)

\* the parts of line i between its single spaces
SpaceParts(i, maxsplit) == SplitSpace(Strip(lines[i]), maxsplit)

\* a #VER line of at least four parts (tag, series, number, date) that stands
\* outside a block
AcceptedHeader(i) ==
    /\ IsRecord(i, "#VER", 0)
    /\ Len(SpaceParts(i, -1)) >= 4
    /\ ~BlockOpenAt(i)

\* the step appends exactly one Entry and changes no other Entry
RecordsEntry ==
    /\ pc' = "scan"
    /\ Len(sie_file'.entries) = Len(sie_file.entries) + 1
    /\ SubSeq(sie_file'.entries, 1, Len(sie_file.entries)) = sie_file.entries

\* the step leaves the entries as they are and raises nothing
DropsLine == pc' = "scan" /\ sie_file'.entries = sie_file.entries

\* C2 as stated: a ledger line is recorded as an Entry if and only if it lies
\* between a { line and the next } line that follow an accepted #VER
\* header; every other ledger line is dropped without error.
C2_RecordedIffInBlock ==
    [][\A n \in LineNumbers :
          (Scanning(n) /\ LedgerLine(n)) =>
              IF \E i, j \in 1..(n - 1) :
                     /\ i < j
                     /\ AcceptedHeader(i)
                     /\ Opens(j) /\ NoCloseBetween(j, n)
              THEN RecordsEntry
              ELSE DropsLine]_vars

\* the ledger line has text after the second of its spaces (tag, account and
\* the rest)
HasAccountAndMore(n) == Len(SpaceParts(n, 2)) >= 3

\* the fields that follow the object list of the ledger line
AmountFields(n) == Split(TransRemaining(Strip(SpaceParts(n, 2)[3])))

\* the amount field is missing, is {} or is a decimal number
AmountDecodes(n) ==
    \/ AmountFields(n) = <<>>
    \/ AmountFields(n)[1] = "{}"
    \/ FloatOk(ReplaceComma(AmountFields(n)[1]))

\* a block is open at line n and a header was accepted since the last } line
InAcceptedBlock(n) ==
    /\ BlockOpenAt(n)
    /\ \E i \in 1..(n - 1) : AcceptedHeader(i) /\ NoCloseBetween(i, n)

\* C2, amended: a ledger line that has an account field and further text (an
\* object list, an amount), each after a single space, is recorded as an Entry
\* if and only if, when it is scanned, a block is open (a { line stands before it with no } line in
\* between) and a #VER header has been accepted with no } line since; in that
\* position a line whose amount cannot be decoded fails the parse instead, and
\* every other ledger line (nothing after the account, outside a block, in a
\* block with no accepted header since the last } line) is dropped without
\* error.
C2_RecordedIffInAcceptedBlock ==
    [][\A n \in LineNumbers :
          (Scanning(n) /\ LedgerLine(n)) =>
              IF InAcceptedBlock(n) /\ HasAccountAndMore(n)
              THEN IF AmountDecodes(n) THEN RecordsEntry ELSE pc' = "error"
              ELSE DropsLine]_vars

\* a ledger line between a header and its { has been dropped, and the same
\* line inside the block has been recorded
C2_DroppedThenRecorded ==
    /\ pc = "scan"
    /\ Len(sie_file.entries) = 1
    /\ \E a, b \in 1..line_num :
          /\ a < b
          /\ HasAccountAndMore(a) /\ ~BlockOpenAt(a)
          /\ \E i \in 1..(a - 1) : AcceptedHeader(i)
          /\ HasAccountAndMore(b) /\ InAcceptedBlock(b)
          /\ lines[a] = lines[b]

-----------------------------------------------------------------------------
(* C3 *)

HasDeclaration(id) == \E i \in LineNumbers : Declares(i, id)

HasTaxCode(id) == \E i \in LineNumbers : TaxCodes(i, id)

\* the code of the last #SRU record for the id
TaxCodeOf(id) ==
    RecordCode(CHOOSE i \in LineNumbers : TaxCodes(i, id) /\ LastTaxCode(i))

\* C3 as stated: the tax-code pass raises no error, and for a tax code whose
\* id has no #KONTO record it neither creates nor modifies an account.
C3_UndeclaredUntouched ==
    [][pc = "sru" =>
          /\ pc' = "done"
          /\ \A id \in InputIds :
                (HasTaxCode(id) /\ ~HasDeclaration(id)) =>
                    /\ id \in DOMAIN sie_file'.accounts <=> id \in DOMAIN sie_file.accounts
                    /\ id \in DOMAIN sie_file.accounts =>
                           sie_file'.accounts[id] = sie_file.accounts[id]]_vars

\* C3, amended: the tax-code pass raises no error and creates no account; it
\* sets the tax code of exactly the accounts that exist when it runs (declared,
\* or created by the type-override pass) and have a tax-code record, and
\* changes nothing else, so a tax code whose id has no account at that time is
\* dropped.
C3_OnlyExistingAccounts ==
    [][pc = "sru" =>
          /\ pc' = "done"
          /\ DOMAIN sie_file'.accounts = DOMAIN sie_file.accounts
          /\ \A id \in DOMAIN sie_file.accounts :
                sie_file'.accounts[id] =
                    IF HasTaxCode(id)
                    THEN [sie_file.accounts[id] EXCEPT !.sru_code = TaxCodeOf(id)]
                    ELSE sie_file.accounts[id]]_vars

\* the pass has run on an input with a tax code for an account that exists and
\* a tax code for an id that has no account
C3_AttachedAndDropped ==
    /\ Returned
    /\ \E i, j \in LineNumbers :
          /\ IsRecord(i, "#SRU", 2) /\ IsRecord(j, "#SRU", 2)
          /\ RecordId(i) \in DOMAIN Document.accounts
          /\ Document.accounts[RecordId(i)].sru_code = RecordCode(i)
          /\ RecordId(j) \notin DOMAIN Document.accounts

-----------------------------------------------------------------------------
(* C4 *)

InvalidOverride(i) == IsRecord(i, "#KTYP", 2) /\ ~ValidCode(RecordCode(i))

\* the error is a parse error that carries the id/code pair of record i
ReportsPair(i) ==
    /\ err # <<>>
    /\ err[1].type = "SieParseError"
    /\ err[1].line_content = "#KTYP " \o RecordId(i) \o " " \o RecordCode(i)

\* the scan loop has not raised
ScanRaisedNothing ==
    ~(Failed /\ err[1].type = "SieParseError" /\ err[1].line_number # None)

\* C4: when the input has a #KTYP record with a code other than K, S, I, T
\* (here: one that is the last record for its id, in an input whose scan
\* raises nothing), the parse fails with a parse error that reports the
\* id/code pair of such a record, and returns no Document.
C4_InvalidOverrideReported ==
    (/\ pc \in {"done", "error"}
     /\ ScanRaisedNothing
     /\ \E i \in LineNumbers : InvalidOverride(i) /\ LastOverride(i)) =>
        /\ Failed
        /\ result = <<>>
        /\ \E i \in LineNumbers : InvalidOverride(i) /\ ReportsPair(i)

-----------------------------------------------------------------------------
(* C5 *)

BalanceTags == {"#IB", "#UB", "#RES"}

BalanceLine(n) == Len(Fields(n)) >= 1 /\ Fields(n)[1] \in BalanceTags

\* the period, amount or quantity field of the balance record is present and
\* is not a number
BadBalanceNumber(n) ==
    \/ (Len(Fields(n)) >= 2 /\ ~IntOk(Fields(n)[2]))
    \/ (Len(Fields(n)) >= 4 /\ ~FloatOk(ReplaceComma(Fields(n)[4])))
    \/ (Len(Fields(n)) >= 5 /\ ~FloatOk(ReplaceComma(Fields(n)[5])))

\* an accepted ledger line whose amount is not a number
BadLedgerAmount(n) ==
    /\ LedgerLine(n) /\ InAcceptedBlock(n)
    /\ HasAccountAndMore(n) /\ ~AmountDecodes(n)

\* the step raises the parse error of line n and returns no Document
RaisesAt(n) ==
    /\ pc' = "error"
    /\ result' = <<>>
    /\ err'[1].type = "SieParseError"
    /\ err'[1].line_number = n
    /\ err'[1].line_content = Strip(lines[n])

\* C5 as stated: a balance record or an accepted ledger line with numeric
\* text that cannot be decoded makes parse_sie raise a parse error with the
\* 1-based number of the line and the line, and no Document is returned.
C5_UndecodableNumberRaises ==
    [][\A n \in LineNumbers :
          (Scanning(n) /\ ((BalanceLine(n) /\ BadBalanceNumber(n)) \/ BadLedgerAmount(n)))
              => RaisesAt(n)]_vars

\* C5, amended: a balance record that has at least its period, account and
\* amount fields and whose period, amount or quantity cannot be decoded, or an
\* accepted ledger line whose amount cannot be decoded, makes parse_sie raise
\* a parse error with the 1-based number of the line (blank and ignored lines
\* counted) and the trimmed line, and no Document is returned; a balance
\* record of fewer fields is skipped without error whatever its period.
C5_CompleteRecordRaises ==
    [][\A n \in LineNumbers :
          /\ (Scanning(n) /\ BalanceLine(n) /\ Len(Fields(n)) >= 4 /\ BadBalanceNumber(n))
                 => RaisesAt(n)
          /\ (Scanning(n) /\ BadLedgerAmount(n)) => RaisesAt(n)
          /\ (Scanning(n) /\ BalanceLine(n) /\ Len(Fields(n)) < 4)
                 => (pc' = "scan" /\ sie_file' = sie_file)]_vars

\* the parse failed on a padded balance record at line 3, after a blank line
\* and a line of an unknown tag, and reports line 3 with the trimmed record
C5_RaisedAfterBlankLine ==
    /\ Failed
    /\ lines = <<"", "#XYZ 1", "  #UB x 1910 5,5 ">>
    /\ err[1].line_number = 3
    /\ err[1].line_content = "#UB x 1910 5,5"
    /\ result = <<>>

-----------------------------------------------------------------------------
(* C6 *)

\* the recognized tags, each with the number of fields its record needs
MinFields ==
    [tag \in {"#FLAGGA", "#FORMAT", "#SIETYP", "#PROGRAM", "#GEN", "#FNR",
              "#VALUTA", "#TAXAR", "#KPTYP", "#ADRESS", "#FNAMN", "#ORGNR"} |-> 1]
    @@ [tag \in {"#RAR", "#KONTO", "#KTYP", "#SRU", "#DIM", "#TRANS"} |-> 2]
    @@ [tag \in {"#OBJEKT", "#IB", "#UB", "#RES", "#VER"} |-> 3]

RecognizedTags == DOMAIN MinFields

\* line n is a record of a recognized tag with fewer fields than it needs
ShortRecord(n) ==
    /\ Len(Fields(n)) >= 1
    /\ Fields(n)[1] \in RecognizedTags
    /\ Len(Fields(n)) - 1 < MinFields[Fields(n)[1]]

\* C6: a record of a recognized tag that is too short, a tag with no fields
\* at all included, never raises: the scan goes on past it, and the parse of
\* an input of such records returns a Document.
C6_ShortRecordNeverRaises ==
    [][\A n \in LineNumbers : (Scanning(n) /\ ShortRecord(n)) => pc' = "scan"]_vars

-----------------------------------------------------------------------------
(* C7 *)

\* line n is blank, or is neither a standalone brace nor begins with #, or
\* begins with # and its tag is not a recognized one
IgnoredLine(n) ==
    LET line == Strip(lines[n]) IN
    \/ line = ""
    \/ (line \notin {"{", "}"} /\ ~StartsWith(line, "#"))
    \/ (StartsWith(line, "#") /\ Fields(n)[1] \notin RecognizedTags)

\* C7: a blank line, a line other than { or } that does not start with #, and
\* a line whose tag is not a recognized tag raise no error and leave the
\* Document, the buffered override and tax-code tables, the in-block flag and
\* the active header unchanged.
C7_IgnoredLineChangesNothing ==
    [][\A n \in LineNumbers :
          (Scanning(n) /\ IgnoredLine(n)) =>
              /\ pc' = "scan"
              /\ UNCHANGED <<sie_file, ktyp_records, sru_records,
                             in_voucher_block, current_voucher>>]_vars

-----------------------------------------------------------------------------
(* C8 *)

DeclarationCount(id) == Cardinality({i \in LineNumbers : Declares(i, id)})

HasOverride(id) == \E i \in LineNumbers : Overrides(i, id)

\* C8: an account declared by exactly one #KONTO record and named by no #KTYP
\* record has, in the returned Document, the classification that
\* get_bas_account_type gives for its identifier.
C8_DefaultClassification ==
    Returned =>
        \A id \in InputIds :
            (DeclarationCount(id) = 1 /\ ~HasOverride(id)) =>
                /\ id \in DOMAIN Document.accounts
                /\ Document.accounts[id].type = get_bas_account_type(id)

\* a Document with an account that kept its default classification next to an
\* account whose classification was overridden
C8_DefaultNextToOverride ==
    /\ Returned
    /\ \E id, other \in DOMAIN Document.accounts :
          /\ DeclarationCount(id) = 1 /\ ~HasOverride(id)
          /\ Document.accounts[id].type = get_bas_account_type(id)
          /\ Document.accounts[id].type # "EXPENSE"
          /\ HasOverride(other)
          /\ Document.accounts[other].type # get_bas_account_type(other)

-----------------------------------------------------------------------------
(* C9 *)

AllDigits(id) == \A i \in 1..Len(id) : Ch(id, i) \in Digits

\* the classification the rule of the specification gives an identifier
TableType(id) ==
    IF id = "" \/ ~AllDigits(id) THEN "EXPENSE"
    ELSE CASE Ch(id, 1) = "1" -> "ASSET"
           [] Ch(id, 1) = "2" -> "LIABILITY"
           [] Ch(id, 1) = "3" -> "INCOME"
           [] Ch(id, 1) \in {"4", "5", "6", "7"} -> "EXPENSE"
           [] Ch(id, 1) = "8" ->
                  IF Len(id) >= 4 /\ \E prefix \in {"801", "803", "808", "81", "82", "83"} :
                                         SubSeq(id, 1, Len(prefix)) = prefix
                  THEN "INCOME"
                  ELSE "EXPENSE"
           [] Ch(id, 1) \in {"0", "9"} -> "EXPENSE"

\* C9: get_bas_account_type gives every identifier one of the four
\* classifications: expense when empty or not all digits, else by leading
\* digit 1 asset, 2 liability, 3 income, 4 to 7 expense, 0 and 9 expense, and
\* for 8 income when the identifier has at least four digits and begins with
\* 801, 803, 808, 81, 82 or 83, expense otherwise.
C9_ClassificationTable ==
    \A id \in DOMAIN sie_file.accounts :
        /\ sie_file.accounts[id].type \in AccountType
        /\ sie_file.accounts[id].type = TableType(id)
        /\ get_bas_account_type(id) = TableType(id)

\* a four-digit 808x account has been classified as income
C9_ReversalIsIncome ==
    \E id \in DOMAIN sie_file.accounts :
        /\ Len(id) = 4 /\ AllDigits(id) /\ SubSeq(id, 1, 3) = "808"
        /\ sie_file.accounts[id].type = "INCOME"

-----------------------------------------------------------------------------
(* C10 *)

\* the name a #KONTO line gives: the text after the id, without the quotes
DeclaredName(i) == Dequote(Strip(SplitSpace(Strip(lines[i]), 2)[3]))

\* C10: an id declared by several #KONTO records has one account in the
\* returned Document; its name is that of the last declaration, its
\* classification the default of the id unless a #KTYP record names the id, and
\* the tax code recorded for the id is attached to it.
C10_LastDeclarationWins ==
    Returned =>
        \A i \in LineNumbers :
            (IsRecord(i, "#KONTO", 2) /\ LastDeclaration(i)) =>
                LET id == RecordId(i) IN
                /\ id \in DOMAIN Document.accounts
                /\ Document.accounts[id].number = id
                /\ Document.accounts[id].name = DeclaredName(i)
                /\ ~HasOverride(id) =>
                       Document.accounts[id].type = get_bas_account_type(id)
                /\ HasTaxCode(id) => Document.accounts[id].sru_code = TaxCodeOf(id)

\* an id declared twice under different names, with a tax code recorded
\* before the last declaration and attached to the resulting account
C10_RedeclaredWithTaxCode ==
    /\ Returned
    /\ \E i, j, k \in LineNumbers :
          /\ i < k /\ j < k
          /\ Declares(i, RecordId(k)) /\ IsRecord(k, "#KONTO", 2)
          /\ TaxCodes(j, RecordId(k))
          /\ DeclaredName(i) # DeclaredName(k)
          /\ Document.accounts[RecordId(k)].name = DeclaredName(k)
          /\ Document.accounts[RecordId(k)].sru_code = RecordCode(j)

-----------------------------------------------------------------------------
(* C11 *)

\* the ledger line n is one the scan accepts: well formed, in an open block,
\* under an accepted header
AcceptedLedgerLine(n) ==
    /\ LedgerLine(n) /\ InAcceptedBlock(n)
    /\ HasAccountAndMore(n) /\ AmountDecodes(n)

\* the header that is active at line n: the last accepted one before it
ActiveHeader(n) ==
    CHOOSE i \in 1..(n - 1) :
        /\ AcceptedHeader(i)
        /\ \A k \in (i + 1)..(n - 1) : ~AcceptedHeader(k)

\* series token and sequence-number token of header i, joined
HeaderKey(i) == SpaceParts(i, -1)[2] \o SpaceParts(i, -1)[3]

\* the keys of the accepted ledger lines among the first n lines, in order
RECURSIVE AcceptedKeys(_)
AcceptedKeys(n) ==
    IF n = 0 THEN <<>>
    ELSE IF AcceptedLedgerLine(n)
    THEN Append(AcceptedKeys(n - 1), HeaderKey(ActiveHeader(n)))
    ELSE AcceptedKeys(n - 1)

EntryKeys == [k \in 1..Len(sie_file.entries) |-> sie_file.entries[k].voucher_index]

\* C11: every accepted ledger line yields exactly one Entry, and the Entry's
\* voucher key is the series token of the header active at that line followed
\* at once by the header's sequence-number token; n ledger lines in one block
\* under header A 1 yield n Entries keyed A1.
C11_KeyIsSeriesThenNumber ==
    ~Failed => EntryKeys = AcceptedKeys(line_num)

\* a returned Document with two Entries of one block under header A 1, both
\* keyed A1
C11_TwoEntriesKeyedA1 ==
    /\ Returned
    /\ Len(lines) = 4
    /\ lines[1] = "#VER A 1 20240101 \"Sale\"" /\ lines[2] = "{"
    /\ Len(Document.entries) = 2
    /\ \A k \in 1..2 : Document.entries[k].voucher_index = "A1"

-----------------------------------------------------------------------------
(* C12 *)

\* the Balance that the balance record at line i describes
BalanceOf(i) ==
    [account_number |-> Fields(i)[3],
     period |-> IntVal(Fields(i)[2]),
     amount |-> FloatVal(ReplaceComma(Fields(i)[4])),
     quantity |-> IF Len(Fields(i)) >= 5
                  THEN FloatVal(ReplaceComma(Fields(i)[5])) ELSE Zero]

\* one Balance for each record of the tag with period, account and amount
\* among the first n lines, in file order
RECURSIVE BalancesOf(_, _)
BalancesOf(tag, n) ==
    IF n = 0 THEN <<>>
    ELSE IF IsRecord(n, tag, 3)
    THEN Append(BalancesOf(tag, n - 1), BalanceOf(n))
    ELSE BalancesOf(tag, n - 1)

\* C12: while the parse has not failed, the opening, closing and result
\* collections hold exactly one Balance for each #IB, #UB and #RES record with
\* period, account and amount scanned so far, in file order, each in the
\* collection of its tag only; records of the same account and period are
\* neither merged nor dropped, so each collection is as long as the number of
\* such records of its tag.
C12_OneBalancePerRecord ==
    ~Failed =>
        /\ sie_file.opening_balances = BalancesOf("#IB", line_num)
        /\ sie_file.closing_balances = BalancesOf("#UB", line_num)
        /\ sie_file.result_balances = BalancesOf("#RES", line_num)

\* a returned Document with three opening balances of account 1910 and
\* period 0, two of them equal
C12_DuplicatesKept ==
    /\ Returned
    /\ Len(Document.opening_balances) = 3
    /\ \A k \in 1..3 : /\ Document.opening_balances[k].account_number = "1910"
                       /\ Document.opening_balances[k].period = 0
    /\ Document.opening_balances[1] = Document.opening_balances[3]
    /\ Document.opening_balances[1] # Document.opening_balances[2]
    /\ Document.closing_balances = <<>>

-----------------------------------------------------------------------------
(* C13 *)

AccountTags == {"#KONTO", "#KTYP", "#SRU"}

\* no two records of one kind name the same id
OneRecordPerKind ==
    \A tag \in AccountTags : \A i, j \in LineNumbers :
        (i # j /\ IsRecord(i, tag, 2) /\ IsRecord(j, tag, 2))
            => RecordId(i) # RecordId(j)

\* what the records say of an id, whatever their positions
NameOf(id) == DeclaredName(CHOOSE i \in LineNumbers : Declares(i, id))

OverrideOf(id) == RecordCode(CHOOSE i \in LineNumbers : Overrides(i, id))

CodeOf(id) == RecordCode(CHOOSE i \in LineNumbers : TaxCodes(i, id))

\* the accounts as a function of the set of records alone
AccountsOfRecords ==
    [id \in {x \in InputIds : HasDeclaration(x) \/ HasOverride(x)} |->
        [number |-> id,
         name |-> IF HasDeclaration(id) THEN NameOf(id) ELSE "Account " \o id,
         type |-> IF HasOverride(id) THEN Classification[OverrideOf(id)]
                  ELSE get_bas_account_type(id),
         sru_code |-> IF HasTaxCode(id) THEN CodeOf(id) ELSE ""]]

\* some line makes the parse fail wherever it stands
SomeLineFails ==
    \E i \in LineNumbers :
        \/ InvalidOverride(i)
        \/ (BalanceLine(i) /\ Len(Fields(i)) >= 4 /\ BadBalanceNumber(i))

\* C13: for an input in which every id has at most one #KONTO, one #KTYP and
\* one #SRU record, the parse fails or returns according to which records the
\* input holds, and the returned accounts (name, classification, tax code of
\* each id) are a function of which records the input holds, not of their
\* positions: every reordering of the records gives the same accounts.
C13_AccountsOrderFree ==
    (Failed \/ Returned) =>
        (OneRecordPerKind =>
            /\ Failed => SomeLineFails
            /\ Returned => (~SomeLineFails /\ Document.accounts = AccountsOfRecords))

\* a returned Document for an input where the tax code and the override of an
\* account come before its declaration
C13_DeclarationLast ==
    /\ Returned /\ OneRecordPerKind
    /\ \E i, j, k \in LineNumbers :
          /\ i < k /\ j < k
          /\ TaxCodes(i, RecordId(k)) /\ Overrides(j, RecordId(k))
          /\ IsRecord(k, "#KONTO", 2)
          /\ Document.accounts[RecordId(k)].sru_code = RecordCode(i)
          /\ Document.accounts[RecordId(k)].name = DeclaredName(k)
          /\ Document.accounts[RecordId(k)].type = Classification[RecordCode(j)]

-----------------------------------------------------------------------------
(* C14 *)

MetadataFields ==
    {"company_name", "company_id", "period_start", "period_end", "file_flag",
     "file_format", "sie_type", "program", "generation_date", "file_number",
     "currency", "tax_year", "account_plan_type", "contact_person",
     "address_line1", "address_line2", "phone"}

StringKeyed == {"accounts", "dimensions", "objects", "metadata"}

Listed == {"entries", "opening_balances", "closing_balances", "result_balances"}

EmptyDocument(doc) ==
    /\ DOMAIN doc = MetadataFields \cup StringKeyed \cup Listed
    /\ \A f \in MetadataFields : doc[f] = ""
    /\ \A f \in StringKeyed : DOMAIN doc[f] = {}
    /\ \A f \in Listed : Len(doc[f]) = 0

\* C14: the parse of the empty input raises no error, and the Document it
\* returns has empty accounts, entries, balances, dimensions and objects and
\* the empty string in every metadata field.
C14_EmptyInputEmptyDocument ==
    lines = <<>> =>
        /\ ~Failed
        /\ err = <<>>
        /\ Returned => EmptyDocument(Document)

\* the parse of the empty input has returned
C14_EmptyInputReturned ==
    /\ lines = <<>>
    /\ Returned
    /\ EmptyDocument(Document)

-----------------------------------------------------------------------------
(* C15 *)

CreditSide(account) ==
    /\ SieAccount_normal_balance(account) = "credit"
    /\ SieAccount_balance_multiplier(account) = -1

DebitSide(account) ==
    /\ SieAccount_normal_balance(account) = "debit"
    /\ SieAccount_balance_multiplier(account) = 1

\* C15: an account is on the credit side with multiplier -1 exactly when its
\* classification is liability or income, and on the debit side with
\* multiplier +1 exactly when it is asset or expense; in the returned Document
\* the side of an account named by a type override is that of the overriding
\* classification.
C15_SideFollowsClassification ==
    /\ \A id \in DOMAIN sie_file.accounts :
           LET account == sie_file.accounts[id] IN
           /\ CreditSide(account) <=> account.type \in {"LIABILITY", "INCOME"}
           /\ DebitSide(account) <=> account.type \in {"ASSET", "EXPENSE"}
           /\ CreditSide(account) \/ DebitSide(account)
    /\ Returned =>
           \A i \in LineNumbers :
               (IsRecord(i, "#KTYP", 2) /\ LastOverride(i)) =>
                   LET account == Document.accounts[RecordId(i)] IN
                   IF RecordCode(i) \in {"S", "I"}
                   THEN CreditSide(account) ELSE DebitSide(account)

\* account 1910, an asset by its number, declared and overridden to a
\* liability, is on the credit side in the returned Document
C15_OverriddenToCredit ==
    /\ Returned
    /\ \E i, j \in LineNumbers :
          /\ Declares(i, "1910") /\ Overrides(j, "1910")
          /\ LastOverride(j) /\ RecordCode(j) = "S"
    /\ get_bas_account_type("1910") = "ASSET"
    /\ CreditSide(Document.accounts["1910"])

-----------------------------------------------------------------------------
(* C16 *)

Exited == pc = "exit"

ParseErrorRaised == err # <<>> /\ err[1].type = "SieParseError"

\* one line on the error stream, status 1, nothing on standard output
FailsWith(line) ==
    /\ cli.stderr = <<line>>
    /\ cli.exit_code = <<1>>
    /\ cli.stdout = <<>>

\* C16: when parsing fails with a parse error the command prints one
\* diagnostic that starts with "Error parsing SIE file:" on the error stream
\* and exits with status 1; when the file is missing it prints
\* "Error: File '<path>' not found" and exits with status 1; in both cases
\* nothing is ever written to standard output.
C16_DiagnosticAndStatus ==
    /\ (ParseErrorRaised \/ ~cli.exists) => cli.stdout = <<>>
    /\ (Exited /\ ParseErrorRaised) =>
           /\ FailsWith(cli.stderr[1])
           /\ StartsWith(cli.stderr[1], "Error parsing SIE file:")
    /\ (Exited /\ ~cli.exists) =>
           FailsWith("Error: File '" \o cli.args[1].file \o "' not found")

\* the command has exited on a file whose second line holds an amount that
\* does not decode
C16_ExitedOnParseError ==
    /\ Exited /\ ParseErrorRaised
    /\ cli.exists
    /\ err[1].line_number = 2
    /\ StartsWith(cli.stderr[1], "Error parsing SIE file: Line 2: ")
    /\ cli.exit_code = <<1>>

-----------------------------------------------------------------------------
(* C17 *)

\* the invocation has just begun
AtEntry == pc = "scan" /\ line_num = 0

\* C17: an invocation begins with an empty Document, no open block, no active
\* header and empty override and tax-code tables, whatever the invocations
\* before it were and however they ended; and an invocation of a content that
\* was parsed before ends as that earlier invocation ended, with an equal
\* Document or an equal error.
C17_InvocationsIndependent ==
    /\ AtEntry =>
           /\ EmptyDocument(sie_file)
           /\ ~in_voucher_block /\ current_voucher = <<>>
           /\ ktyp_records = <<>> /\ sru_records = <<>>
           /\ err = <<>> /\ result = <<>>
    /\ (Returned \/ Failed) =>
           \A k \in 1..Len(calls) :
               calls[k].input = lines =>
                   (calls[k].returned = result /\ calls[k].raised = err)

\* a ledger line parsed alone, then a content that ends inside an open block
\* under a header, then the ledger line again: no Entry is returned for it
C17_AfterUnterminatedBlock ==
    /\ Returned
    /\ Len(calls) = 2
    /\ calls[2].input = <<"#VER A 1 20240101", "{">>
    /\ lines = <<"#TRANS 1910 {} 5">>
    /\ calls[1].input = lines
    /\ Document.entries = <<>>

-----------------------------------------------------------------------------
(* C18 *)

\* the { line that opened the block line n stands in
OpenedAt(n) ==
    CHOOSE j \in 1..(n - 1) : Opens(j) /\ NoCloseBetween(j, n) /\ ~BlockOpenAt(j)

\* key, date and description that header i gives an Entry
HeaderDate(i) == SpaceParts(i, -1)[4]

HeaderDescription(i) == VerDescription(SpaceParts(i, -1))

LastEntry(doc) == doc.entries[Len(doc.entries)]

\* C18: a #VER line scanned while a block is open changes neither the active
\* header nor anything else, and every ledger line accepted in a block gets
\* the key, date and description of the header that was active when the block
\* was opened.
C18_HeaderInBlockIgnored ==
    [][\A n \in LineNumbers :
          Scanning(n) =>
              /\ (IsRecord(n, "#VER", 0) /\ BlockOpenAt(n)) =>
                     /\ pc' = "scan"
                     /\ UNCHANGED <<current_voucher, in_voucher_block, sie_file>>
              /\ AcceptedLedgerLine(n) =>
                     LET h == ActiveHeader(OpenedAt(n)) IN
                     /\ RecordsEntry
                     /\ LastEntry(sie_file').voucher_index = HeaderKey(h)
                     /\ LastEntry(sie_file').date = HeaderDate(h)
                     /\ LastEntry(sie_file').description = HeaderDescription(h)]_vars

\* header A 1, the block, header B 22 inside the block, a ledger line: the
\* Entry returned is keyed, dated and described by header A 1
C18_SecondHeaderInsideBlock ==
    /\ Returned
    /\ lines = <<"#VER A 1 20240101 \"Sale\"", "{", "#VER B 22 20240102",
                 "#TRANS 1910 {} 100,50">>
    /\ Len(Document.entries) = 1
    /\ Document.entries[1].voucher_index = "A1"
    /\ Document.entries[1].date = "20240101"
    /\ Document.entries[1].description = "Sale"

-----------------------------------------------------------------------------
(* C19 *)

\* a } line stands before line n and no header has been accepted since
ClosedAndNoHeaderSince(n) ==
    \E k \in 1..(n - 1) :
        Closes(k) /\ \A i \in (k + 1)..(n - 1) : ~AcceptedHeader(i)

\* C19: a } line leaves no block open and no header active, whatever the
\* state before it, a state with no block open included, and changes nothing
\* else; after a } line every ledger line is dropped, inside a following
\* { block as well, until a header has been accepted outside a block.
C19_CloseLeavesIdle ==
    [][\A n \in LineNumbers :
          Scanning(n) =>
              /\ Closes(n) =>
                     /\ pc' = "scan"
                     /\ ~in_voucher_block' /\ current_voucher' = <<>>
                     /\ UNCHANGED <<sie_file, ktyp_records, sru_records>>
              /\ (LedgerLine(n) /\ ClosedAndNoHeaderSince(n)) => DropsLine]_vars

\* a header, a } line with no block open, then a block with a ledger line:
\* the } line has cleared the header and the ledger line is dropped
C19_CloseWithoutBlockClearsHeader ==
    /\ Returned
    /\ lines = <<"#VER A 1 20240101 \"Sale\"", "}", "{", "#TRANS 1910 {} 100,50">>
    /\ Document.entries = <<>>
    /\ in_voucher_block
    /\ current_voucher = <<>>

-----------------------------------------------------------------------------
(* C20 *)

\* the last #KONTO record and the last #KTYP record that name the id
DeclarationOf(id) == CHOOSE i \in LineNumbers : Declares(i, id) /\ LastDeclaration(i)

ResolvedOverrideOf(id) == CHOOSE i \in LineNumbers : Overrides(i, id) /\ LastOverride(i)

\* C20: in the returned Document every id named by a #KTYP record has an
\* account with the classification the override resolves to; when no #KONTO
\* record anywhere in the input declares the id the account's name is
\* "Account " followed by the id, and when one does, before or after the
\* #KTYP record, the name is the declared one.
C20_PlaceholderOnlyWithoutDeclaration ==
    Returned =>
        \A i \in LineNumbers :
            IsRecord(i, "#KTYP", 2) =>
                LET id == RecordId(i) IN
                /\ id \in DOMAIN Document.accounts
                /\ Document.accounts[id].number = id
                /\ Document.accounts[id].type =
                       Classification[RecordCode(ResolvedOverrideOf(id))]
                /\ Document.accounts[id].name =
                       IF HasDeclaration(id) THEN DeclaredName(DeclarationOf(id))
                       ELSE "Account " \o id

\* a returned Document with the placeholder account of 2440 next to account
\* 1910, overridden before it was declared and holding its declared name
C20_PlaceholderNextToDeclared ==
    /\ Returned
    /\ lines = <<"#KTYP 2440 K", "#KTYP 1910 S", "#KONTO 1910 Kassa">>
    /\ Document.accounts["2440"].name = "Account 2440"
    /\ Document.accounts["2440"].type = "ASSET"
    /\ Document.accounts["1910"].name = "Kassa"
    /\ Document.accounts["1910"].type = "LIABILITY"

-----------------------------------------------------------------------------
(* C21 *)

\* the input ends inside an open block
EndsInsideBlock == BlockOpenAt(Len(lines) + 1)

\* C21: an input that ends while a block is open raises no error for that:
\* the parse goes through both passes with the block flag still set and
\* returns a Document that holds one Entry for every ledger line accepted
\* before the end of the input.
C21_UnterminatedBlockReturned ==
    EndsInsideBlock =>
        /\ ~Failed
        /\ line_num = Len(lines) => in_voucher_block
        /\ Returned =>
               /\ Len(Document.entries) = Len(AcceptedKeys(Len(lines)))
               /\ [k \in 1..Len(Document.entries) |-> Document.entries[k].voucher_index]
                      = AcceptedKeys(Len(lines))

\* a Document returned for a header, a { line and two ledger lines, with no }
\* line: both Entries are in it
C21_ReturnedInsideBlock ==
    /\ Returned
    /\ EndsInsideBlock
    /\ Len(lines) = 4 /\ lines[2] = "{"
    /\ Len(Document.entries) = 2
    /\ in_voucher_block

-----------------------------------------------------------------------------
(* C22 *)

\* the account ids of the accepted ledger lines among the first n lines
RECURSIVE AcceptedAccounts(_)
AcceptedAccounts(n) ==
    IF n = 0 THEN <<>>
    ELSE IF AcceptedLedgerLine(n)
    THEN Append(AcceptedAccounts(n - 1), SpaceParts(n, 2)[2])
    ELSE AcceptedAccounts(n - 1)

\* the step is one of the two passes that follow the scan
PassStep == (pc = "scan" /\ line_num = Len(lines)) \/ pc = "sru"

\* every field of the Document but the accounts
AllButAccounts(doc) == [f \in (DOMAIN doc) \ {"accounts"} |-> doc[f]]

\* C22: the Entries stand in the Document in the order of their ledger lines;
\* no step modifies or removes an Entry that is there, and the override pass
\* and the tax-code pass change nothing of the Document but its accounts.
C22_EntriesKeptInOrder ==
    /\ [](~Failed =>
             [k \in 1..Len(sie_file.entries) |-> sie_file.entries[k].account_number]
                 = AcceptedAccounts(line_num))
    /\ [][/\ Len(sie_file'.entries) >= Len(sie_file.entries)
          /\ SubSeq(sie_file'.entries, 1, Len(sie_file.entries)) = sie_file.entries
          /\ PassStep => AllButAccounts(sie_file') = AllButAccounts(sie_file)]_vars

\* a returned Document with one Entry and an account the override pass made,
\* for a ledger line followed by an override
C22_EntryKeptThroughPasses ==
    /\ Returned
    /\ lines = <<"#VER A 1 20240101", "{", "#TRANS 3010 {} -5", "#KTYP 1910 S">>
    /\ Len(Document.entries) = 1
    /\ Document.entries[1].account_number = "3010"
    /\ DOMAIN Document.accounts = {"1910"}

-----------------------------------------------------------------------------
(* C23 *)

PeriodRecord(n) == IsRecord(n, "#RAR", 1)

\* the period index of the record is a number and that number is 0
PeriodIndexZero(n) == IntOk(Fields(n)[2]) /\ IntVal(Fields(n)[2]) = 0

\* C23: a #RAR record sets the Document's period start and end only when its
\* period index is 0; a #RAR record with any other period index leaves both
\* unchanged.
C23_OnlyPeriodZeroSetsPeriod ==
    [][\A n \in LineNumbers :
          (Scanning(n) /\ PeriodRecord(n) /\ ~PeriodIndexZero(n)) =>
              /\ sie_file'.period_start = sie_file.period_start
              /\ sie_file'.period_end = sie_file.period_end]_vars

-----------------------------------------------------------------------------
(* C24 *)

\* the positions of the quote characters of line n
QuotePositions(n) == {i \in 1..Len(lines[n]) : Ch(lines[n], i) = Quote}

HasQuotedValue(n) == Cardinality(QuotePositions(n)) >= 2

Least(S) == CHOOSE i \in S : \A j \in S : i <= j

\* the text between the first quote of line n and the next one
FirstQuotedValue(n) ==
    LET open == Least(QuotePositions(n))
        close == Least(QuotePositions(n) \ {open})
    IN SubSeq(lines[n], open + 1, close - 1)

\* the text of line n after its tag, without the surrounding blanks
RawText(n) == Strip(SubSeq(Strip(lines[n]), Len(Fields(n)[1]) + 1, Len(Strip(lines[n]))))

StoredValue(n) == IF HasQuotedValue(n) THEN FirstQuotedValue(n) ELSE RawText(n)

\* C24: a #FNAMN, #PROGRAM or #FNR record stores, as the company name, the
\* program or the file number, the first quoted value of its line when the
\* line has one, and otherwise the raw text that follows the tag.
C24_QuotedValueElseRawText ==
    [][\A n \in LineNumbers :
          Scanning(n) =>
              /\ IsRecord(n, "#FNAMN", 0) => sie_file'.company_name = StoredValue(n)
              /\ IsRecord(n, "#PROGRAM", 0) => sie_file'.program = StoredValue(n)
              /\ IsRecord(n, "#FNR", 0) => sie_file'.file_number = StoredValue(n)]_vars

-----------------------------------------------------------------------------
(* C25 *)

\* the text after the account id of ledger line n does not begin with {
NoObjectList(n) == ~StartsWith(Fields(n)[3], "{")

\* the step appends one Entry for the account of line n with the given amount
AppendsAmount(n, amount) ==
    /\ RecordsEntry
    /\ LastEntry(sie_file').account_number = Fields(n)[2]
    /\ LastEntry(sie_file').amount = amount

\* C25: an accepted ledger line with no object list after the account id
\* yields an Entry whose amount is the first token after the account id, as
\* if the list were empty; an accepted ledger line with {} in the amount
\* position yields an Entry with amount zero.
C25_AmountWithoutObjectList ==
    [][\A n \in LineNumbers :
          (Scanning(n) /\ AcceptedLedgerLine(n)) =>
              /\ NoObjectList(n) =>
                     AppendsAmount(n, FloatVal(ReplaceComma(Fields(n)[3])))
              /\ (~NoObjectList(n) /\ AmountFields(n) # <<>> /\ AmountFields(n)[1] = "{}") =>
                     AppendsAmount(n, Zero)]_vars

\* a returned Document whose first Entry took its amount from a line without
\* an object list and whose second Entry came from a line with {} for the amount
C25_BareAmountThenBraces ==
    /\ Returned
    /\ lines = <<"#VER A 1 20240101", "{", "#TRANS 1910 100,50", "#TRANS 1910 {} {}">>
    /\ Len(Document.entries) = 2
    /\ Document.entries[1].amount = FloatVal("100.50")
    /\ Document.entries[2].amount = Zero

-----------------------------------------------------------------------------
(* C26 *)

\* line n has numeric text that cannot be decoded: a balance record with its
\* period, account and amount fields, or an accepted ledger line
MalformedNumeric(n) ==
    \/ (BalanceLine(n) /\ Len(Fields(n)) >= 4 /\ BadBalanceNumber(n))
    \/ BadLedgerAmount(n)

FirstMalformed ==
    CHOOSE n \in LineNumbers :
        MalformedNumeric(n) /\ \A k \in 1..(n - 1) : ~MalformedNumeric(k)

\* C26: when the input has a line with numeric text that cannot be decoded,
\* the parse fails with the error of the first such line in file order and
\* with its line number, also when a #KTYP record with an invalid code stands
\* anywhere in the input, before or after that line.
C26_FirstNumericErrorWins ==
    (/\ pc \in {"done", "error"}
     /\ \E n \in LineNumbers : MalformedNumeric(n)) =>
        /\ Failed
        /\ result = <<>>
        /\ err[1].type = "SieParseError"
        /\ err[1].cause = "ValueError"
        /\ err[1].line_number = FirstMalformed
        /\ err[1].line_content = Strip(lines[FirstMalformed])

\* the parse failed at the second of three lines: an invalid override stands
\* before the first malformed number and another malformed number after it
C26_RaisedPastInvalidOverride ==
    /\ Failed
    /\ lines = <<"#KTYP 1910 X", "#IB 0 1910 abc", "#UB x 1910 5">>
    /\ err[1].line_number = 2
    /\ err[1].line_content = "#IB 0 1910 abc"

-----------------------------------------------------------------------------
(* C27 *)

\* a ledger line with an account and an amount text that is no number
MalformedLedgerLine(n) ==
    LedgerLine(n) /\ HasAccountAndMore(n) /\ ~AmountDecodes(n)

\* C27: a ledger line with malformed amount text that stands outside an
\* accepted block (no block is open, or no header is active) is dropped
\* without error and the scan goes on with nothing changed; the same line
\* inside an accepted block raises the parse error of its line.
C27_DroppedBeforeDecoding ==
    [][\A n \in LineNumbers :
          (Scanning(n) /\ MalformedLedgerLine(n)) =>
              IF InAcceptedBlock(n)
              THEN RaisesAt(n)
              ELSE /\ pc' = "scan" /\ line_num' = n
                   /\ UNCHANGED <<sie_file, current_voucher, in_voucher_block,
                                  ktyp_records, sru_records, err, result>>]_vars

\* the parse failed at line 4 on the amount text that line 1, outside any
\* block, carried without an error
C27_SameTextOutsideThenInside ==
    /\ Failed
    /\ lines = <<"#TRANS 3010 {} 1O0", "#VER A 1 20240101 \"Sale\"", "{",
                 "#TRANS 3010 {} 1O0">>
    /\ err[1].line_number = 4
    /\ sie_file.entries = <<>>

-----------------------------------------------------------------------------
(* C28 *)

\* the { lines less the } lines among the first n lines
RECURSIVE BraceDepth(_)
BraceDepth(n) ==
    IF n = 0 THEN 0
    ELSE BraceDepth(n - 1) + (IF Opens(n) THEN 1 ELSE IF Closes(n) THEN -1 ELSE 0)

\* C28: no nesting depth is kept. When the parse of an input returns, a block
\* is open exactly when a { line has been scanned with no } line after it,
\* however many { lines came before; no header is active after a } line until
\* the next accepted header; and the Entries are those of the ledger lines
\* that stood in such a block, so a ledger line after the first } line is
\* dropped.
C28_FirstCloseEndsBlock ==
    Returned =>
        /\ in_voucher_block = BlockOpenAt(line_num + 1)
        /\ ClosedAndNoHeaderSince(line_num + 1) => current_voucher = <<>>
        /\ Len(sie_file.entries) = Len(AcceptedKeys(line_num))

\* a block opened twice and closed once, a ledger line, and one more } line:
\* the ledger line stands at depth 1 and the returned Document has no Entry
C28_LedgerLineAtDepthOne ==
    /\ Returned
    /\ lines = <<"#VER A 1 20240101", "{", "{", "}", "#TRANS 1910 {} 5", "}">>
    /\ BraceDepth(4) = 1
    /\ Document.entries = <<>>
    /\ ~in_voucher_block

-----------------------------------------------------------------------------
(* C29 *)

\* the amount of ledger line n: its first field after the object list
LedgerAmount(n) ==
    IF AmountFields(n) = <<>> \/ AmountFields(n)[1] = "{}"
    THEN Zero
    ELSE FloatVal(ReplaceComma(AmountFields(n)[1]))

\* the Entry made of the account and amount of ledger line n and of the key,
\* date and description of header h
EntryUnder(h, n) ==
    SieEntry(HeaderDate(h), SpaceParts(n, 2)[2], LedgerAmount(n),
             HeaderDescription(h), HeaderKey(h))

\* C29: the Entry of an accepted ledger line has the date and the description
\* of the header that is active when the line is scanned, and is made of that
\* header and of the account and amount of the line alone: the transaction
\* date, transaction text, quantity and signature of the line change nothing
\* of it.
C29_EntryFromHeaderOnly ==
    [][\A n \in LineNumbers :
          (Scanning(n) /\ AcceptedLedgerLine(n)) =>
              /\ RecordsEntry
              /\ LastEntry(sie_file') = EntryUnder(ActiveHeader(n), n)]_vars

\* two equal Entries, dated and described by the header, for a ledger line
\* without further fields and one with a date, a text, a quantity and a
\* signature of its own
C29_SameEntryWithOwnFields ==
    /\ Returned
    /\ lines = <<"#VER A 1 20240101 \"Sale\"", "{", "#TRANS 1910 {} 5",
                 "#TRANS 1910 {} 5 20240202 \"Own text\" 3 sig">>
    /\ Len(Document.entries) = 2
    /\ Document.entries[1] = Document.entries[2]
    /\ Document.entries[2].date = "20240101"
    /\ Document.entries[2].description = "Sale"

-----------------------------------------------------------------------------
(* C30 *)

\* the scan has consumed every line and the override pass is about to run
Resolving == pc = "scan" /\ line_num = Len(lines)

OverriddenIds == {RecordId(i) : i \in {j \in LineNumbers : IsRecord(j, "#KTYP", 2)}}

\* C30: of the #KTYP records that name one id only the last in file order
\* takes part in the override pass: one pair per id is buffered, the pass
\* fails exactly when the last record of some id has an invalid code, so an
\* earlier record with an invalid code does not fail the parse, and when the
\* pass succeeds each overridden account has the classification of the last
\* record of its id.
C30_OnlyLastOverrideResolved ==
    [][Resolving =>
          /\ Len(ktyp_records) = Cardinality(OverriddenIds)
          /\ (pc' = "error") <=>
                 (\E i \in LineNumbers : InvalidOverride(i) /\ LastOverride(i))
          /\ pc' = "sru" =>
                 \A i \in LineNumbers :
                     (IsRecord(i, "#KTYP", 2) /\ LastOverride(i)) =>
                         sie_file'.accounts[RecordId(i)].type
                             = Classification[RecordCode(i)]]_vars

\* a returned Document for an input whose first override of 1910 has an
\* invalid code and whose last override of 1910 has a valid one
C30_InvalidThenValid ==
    /\ Returned
    /\ lines = <<"#KTYP 1910 X", "#KONTO 1910 Kassa", "#KTYP 1910 S">>
    /\ Document.accounts["1910"].type = "LIABILITY"
    /\ Document.accounts["1910"].name = "Kassa"


====
